---- MODULE Spec2Model ----
(***************************************************************************)
(* DMXX lighting engine: the DMXInterface facade (backend/dmx_interface.py) *)
(* as a state machine.  Every public entry point of the facade is an       *)
(* operator from facade state to facade state, translated statement by     *)
(* statement from the Python source; an action applies one entry point.    *)
(* Wire frames handed to the outputs and events handed to the subscriber   *)
(* callbacks are logged per action in `sent` and `events`.                 *)
(***************************************************************************)
EXTENDS Integers, Sequences, FiniteSets, TLC

VARIABLES
    channels,              \* universes[u].channels: the output buffer
    local_values,          \* _local_values
    input_values,          \* _input_values
    last_applied_input,    \* _last_applied_input
    passthrough_config,    \* _passthrough_config
    inputs,                \* universes that have a running input
    blackout_active,       \* _blackout_active
    pre_blackout_values,   \* _pre_blackout_values
    input_bypass_active,   \* _input_bypass_active
    global_grandmaster,    \* _global_grandmaster
    universe_grandmasters, \* _universe_grandmasters (absent key = 255)
    groups,                \* _groups
    group_contributions,   \* _group_contributions
    last_group_values,     \* _last_group_values
    parked_channels,       \* _parked_channels
    highlight_active,      \* _highlight_active
    highlighted_channels,  \* _highlighted_channels
    highlight_dim_level,   \* _highlight_dim_level
    channel_sources,       \* _channel_sources
    input_broadcast_age,   \* now - _last_input_broadcast[u], in ticks, capped
    group_broadcast_age,   \* now - _last_group_broadcast[g], in ticks, capped
    channel_map,           \* _channel_map: source slot -> list of destinations
    unmapped_behavior,     \* _unmapped_behavior
    mapping_enabled,       \* _mapping_enabled
    active_scene_id,       \* _active_scene_id (0 = None)
    fades,                 \* recall_scene coroutines suspended inside apply_fade
    shared_nodes,          \* ArtNetOutput._shared_nodes: transport key -> node
    node_refs,             \* ArtNetOutput._node_refs: transport key -> count
    output_running,        \* ArtNetOutput._running of each output
    output_node,           \* ArtNetOutput._node of each output (0 = None)
    output_pc,             \* position of each output's start() / stop() coroutine
    closed_nodes,          \* nodes whose socket has been closed by __aexit__
    nodes_created,         \* number of ArtNetNode objects created so far
    outputs,               \* self.outputs[universe]: the output objects, in order
    output_configs,        \* self._output_configs[universe]: the id of each config
    output_calls,          \* the interface call suspended inside each output's start() / stop()
    outputs_created,       \* number of output objects created by add_output
    disconnect,            \* position of the disconnect() coroutine
    group_value_seen,      \* value of the last group_value_changed broadcast of each group
    events,                \* events delivered to subscribers by the last operation
    sent,                  \* wire frames handed to the outputs by the last operation
    last_op,               \* the last operation and its arguments
    steps                  \* number of operations performed

vars == <<channels, local_values, input_values, last_applied_input,
          passthrough_config, inputs, blackout_active, pre_blackout_values,
          input_bypass_active, global_grandmaster, universe_grandmasters,
          groups, group_contributions, last_group_values, parked_channels,
          highlight_active, highlighted_channels, highlight_dim_level,
          channel_sources, input_broadcast_age, group_broadcast_age,
          channel_map, unmapped_behavior, mapping_enabled,
          active_scene_id, fades,
          shared_nodes, node_refs, output_running, output_node, output_pc,
          closed_nodes, nodes_created,
          outputs, output_configs, output_calls, outputs_created, disconnect,
          group_value_seen, events, sent, last_op, steps>>

\* The class attributes and the instances of ArtNetOutput.
transport_vars == <<shared_nodes, node_refs, output_running, output_node,
                    output_pc, closed_nodes, nodes_created>>

\* The output lists of DMXInterface and the coroutines working on them.
interface_vars == <<outputs, output_configs, output_calls, outputs_created,
                    disconnect>>

\* The channel engine of DMXInterface and the log of the last operation.
engine_vars == <<channels, local_values, last_applied_input,
                 passthrough_config, blackout_active, pre_blackout_values,
                 input_bypass_active, global_grandmaster, universe_grandmasters,
                 groups, group_contributions, last_group_values, parked_channels,
                 highlight_active, highlighted_channels, highlight_dim_level,
                 channel_sources, input_broadcast_age, group_broadcast_age,
                 channel_map, unmapped_behavior, mapping_enabled,
                 active_scene_id, fades, group_value_seen,
                 events, sent, last_op, steps>>

\* The attributes of DMXInterface and the log of the last operation.
facade_vars == <<engine_vars, input_values, inputs, interface_vars>>

----------------------------------------------------------------------------
(* Bounds of the model *)

\* Number of universes configured at startup.
NumUniverses == 2
\* Width of a universe frame in the model; stands for the 512 slots of
\* DMXUniverse.channels.
NumChannels == 5
\* Number of facade operations explored from the initial state.
MaxSteps == 3

Universes == 1..NumUniverses
Channels == 1..NumChannels
GroupIds == {1, 2}

\* The (universe, channel) slots the operations are exercised on.
\*   (1,1) physical master of group 2, inside the input range
\*   (1,2) member of groups 1 and 2, inside the input range
\*   (1,3) member of group 1 only
\*   (1,5) plain channel
\*   (2,1) plain channel of a second universe
Targets == {<<1, 1>>, <<1, 2>>, <<1, 3>>, <<1, 5>>, <<2, 1>>}

\* Values written by users; 300 is outside 0..255 (the WebSocket handler
\* main.py:354 passes the client's value through unchecked).
Values == {0, 150, 200}
OutOfRangeValues == {300, -5}
GrandmasterValues == {0, 128, 255}
ParkValues == {51}
DimLevels == {0, 31}
MasterValues == {0, 128, 255}

\* _input_broadcast_interval / _group_broadcast_interval (100 ms) in ticks.
BroadcastInterval == 2

----------------------------------------------------------------------------
(* Arithmetic *)

Max2(a, b) == IF a >= b THEN a ELSE b
Min2(a, b) == IF a <= b THEN a ELSE b
Abs(a) == IF a < 0 THEN -a ELSE a

\* max(0, min(255, v))
Clamp(v) == Max2(0, Min2(255, v))

\* Python round(n / d) for d > 0: round half to even.
PyRound(n, d) ==
    LET q == n \div d
        r == n % d
    IN  IF 2 * r < d THEN q
        ELSE IF 2 * r > d THEN q + 1
        ELSE IF q % 2 = 0 THEN q ELSE q + 1

SetMax(S) == CHOOSE x \in S : \A y \in S : y <= x

Zeros == [i \in Channels |-> 0]

----------------------------------------------------------------------------
(* DMXUniverse *)

\* Variant: the value is stored without the range check.
UniverseSetChannel_Unchecked(chans, channel, value) ==
    IF channel \in Channels
    THEN [chans EXCEPT ![channel] = value]
    ELSE chans

\* A write outside 1..512 / 0..255 is dropped.
UniverseSetChannel(chans, channel, value) ==
    IF channel \in Channels /\ 0 <= value /\ value <= 255
    THEN [chans EXCEPT ![channel] = value]
    ELSE chans

UniverseGetChannel(chans, channel) ==
    IF channel \in Channels THEN chans[channel] ELSE 0

UniverseSetAll(chans, values) ==
    [i \in Channels |-> IF i <= Len(values) THEN Clamp(values[i]) ELSE chans[i]]

----------------------------------------------------------------------------
(* The facade state as one record *)

State ==
    [channels |-> channels, local_values |-> local_values,
     input_values |-> input_values, last_applied_input |-> last_applied_input,
     passthrough_config |-> passthrough_config, inputs |-> inputs,
     blackout_active |-> blackout_active,
     pre_blackout_values |-> pre_blackout_values,
     input_bypass_active |-> input_bypass_active,
     global_grandmaster |-> global_grandmaster,
     universe_grandmasters |-> universe_grandmasters,
     groups |-> groups, group_contributions |-> group_contributions,
     last_group_values |-> last_group_values,
     parked_channels |-> parked_channels,
     highlight_active |-> highlight_active,
     highlighted_channels |-> highlighted_channels,
     highlight_dim_level |-> highlight_dim_level,
     channel_sources |-> channel_sources,
     input_broadcast_age |-> input_broadcast_age,
     group_broadcast_age |-> group_broadcast_age,
     channel_map |-> channel_map, unmapped_behavior |-> unmapped_behavior,
     mapping_enabled |-> mapping_enabled,
     active_scene_id |-> active_scene_id, fades |-> fades,
     events |-> <<>>, sent |-> <<>>,
     pending_broadcasts |-> <<>>]   \* groups_to_broadcast of the running callback

Event(type, u, c, v, source) ==
    [type |-> type, universe_id |-> u, channel |-> c, value |-> v, source |-> source]

Emit(s, e) == [s EXCEPT !.events = Append(@, e)]

\* _notify_callbacks
NotifyCallbacks(s, u, c, v, source) == Emit(s, Event("channel_change", u, c, v, source))

IsChannelParked(s, u, c) == c \in DOMAIN s.parked_channels[u]

IsUserSource(source) == source \in {"local", "user_a"}

----------------------------------------------------------------------------
(* Emit: park / highlight overrides, grandmaster scaling, fan-out *)

\* Variant: highlight is applied after park and wins over it.
ApplyChannelOverrides_HighlightOverPark(s, chans, u) ==
    LET parked == s.parked_channels[u]
        pk == [i \in Channels |-> IF i \in DOMAIN parked THEN parked[i] ELSE chans[i]]
    IN  IF s.highlight_active
        THEN [i \in Channels |->
                IF i \in s.highlighted_channels[u] THEN 255
                ELSE s.highlight_dim_level]
        ELSE pk

\* Variant: highlight lifts the highlighted channels and leaves the others
\* at their buffer value.
ApplyChannelOverrides_NoDim(s, chans, u) ==
    LET hl == IF s.highlight_active
              THEN [i \in Channels |->
                      IF i \in s.highlighted_channels[u] THEN 255 ELSE chans[i]]
              ELSE chans
        parked == s.parked_channels[u]
    IN  [i \in Channels |-> IF i \in DOMAIN parked THEN parked[i] ELSE hl[i]]

ApplyChannelOverrides(s, chans, u) ==
    LET hl == IF s.highlight_active
              THEN [i \in Channels |->
                      IF i \in s.highlighted_channels[u] THEN 255
                      ELSE s.highlight_dim_level]
              ELSE chans
        parked == s.parked_channels[u]
    IN  [i \in Channels |-> IF i \in DOMAIN parked THEN parked[i] ELSE hl[i]]

\* Variant: scaling is skipped as soon as either grandmaster is at 255.
ApplyGrandmasterScaling_SkipEither(s, chans, u) ==
    LET universe_gm == s.universe_grandmasters[u]
        global_gm == s.global_grandmaster
    IN  IF universe_gm = 255 \/ global_gm = 255 THEN chans
        ELSE [i \in Channels |->
                Min2(255, PyRound(chans[i] * universe_gm * global_gm, 65025))]

\* scale = (universe_gm / 255.0) * (global_gm / 255.0); round(ch * scale).
\* ch * universe_gm * global_gm / 65025 is never within 1/130050 of a tie
\* (65025 is odd), so the float product rounds as the exact quotient does.
ApplyGrandmasterScaling(s, chans, u) ==
    LET universe_gm == s.universe_grandmasters[u]
        global_gm == s.global_grandmaster
    IN  IF universe_gm = 255 /\ global_gm = 255 THEN chans
        ELSE [i \in Channels |->
                Min2(255, PyRound(chans[i] * universe_gm * global_gm, 65025))]

\* Every universe of the model has one running output; the frame handed to
\* it is logged together with the policy state it was computed from.
SendUniverse(s, u) ==
    LET with_overrides == ApplyChannelOverrides(s, s.channels[u], u)
        scaled == ApplyGrandmasterScaling(s, with_overrides, u)
    IN  [s EXCEPT !.sent = Append(@,
            [universe |-> u,
             frame |-> scaled,
             composed |-> with_overrides,
             buffer |-> s.channels[u],
             blackout |-> s.blackout_active,
             parked |-> s.parked_channels[u],
             highlight |-> s.highlight_active,
             highlighted |-> s.highlighted_channels[u],
             dim_level |-> s.highlight_dim_level,
             universe_gm |-> s.universe_grandmasters[u],
             global_gm |-> s.global_grandmaster])]

RECURSIVE SendUniverses(_, _)
SendUniverses(s, us) ==
    IF us = {} THEN s
    ELSE LET u == CHOOSE x \in us : \A y \in us : x <= y
         IN  SendUniverses(SendUniverse(s, u), us \ {u})

----------------------------------------------------------------------------
(* Grandmasters *)

set_global_grandmaster(s, value) ==
    LET s1 == [s EXCEPT !.global_grandmaster = Clamp(value)]
        s2 == SendUniverses(s1, Universes)
    IN  Emit(s2, Event("grandmaster_changed", 0, 0, s1.global_grandmaster, "global"))

set_universe_grandmaster(s, u, value) ==
    LET s1 == [s EXCEPT !.universe_grandmasters[u] = Clamp(value)]
        s2 == SendUniverse(s1, u)
    IN  Emit(s2, Event("grandmaster_changed", u, 0, s1.universe_grandmasters[u], "universe"))

----------------------------------------------------------------------------
(* Group engine *)

HasPhysicalMaster(group) == group.master_universe # 0 /\ group.master_channel # 0

\* _master_to_groups[(u, c)]: the groups whose physical master is (u, c),
\* in load order (ascending id).
MasterToGroups(s, u, c) ==
    {g \in DOMAIN s.groups :
        /\ HasPhysicalMaster(s.groups[g])
        /\ s.groups[g].master_universe = u
        /\ s.groups[g].master_channel = c}

Contributions(s, u, c) == s.group_contributions[<<u, c>>]

ContributionValues(contribs) == {contribs[g] : g \in DOMAIN contribs}

\* The value a proportional / follow group computes for a member.
MemberOutputValue(group, member, master_value) ==
    IF group.mode = "follow" THEN master_value
    ELSE PyRound(member.base_value * master_value, 255)

\* First loop of _apply_group: grandmaster targets call the setters, channel
\* targets record the group's contribution.  Returns the state and the list
\* affected_channels.
RECURSIVE ApplyGroupMembers(_, _, _, _, _)
ApplyGroupMembers(s, group_id, master_value, k, affected) ==
    LET group == s.groups[group_id]
    IN  IF k > Len(group.members) THEN [s |-> s, affected |-> affected]
        ELSE
          LET member == group.members[k]
              output_value == MemberOutputValue(group, member, master_value)
          IN  IF member.target_type = "universe_master"
              THEN ApplyGroupMembers(
                       set_universe_grandmaster(s, member.target_universe_id, output_value),
                       group_id, master_value, k + 1, affected)
              ELSE IF member.target_type = "global_master"
              THEN ApplyGroupMembers(set_global_grandmaster(s, output_value),
                                     group_id, master_value, k + 1, affected)
              ELSE
                LET ch_key == <<member.universe_id, member.channel>>
                    s1 == [s EXCEPT !.group_contributions[ch_key] =
                              (group_id :> output_value) @@ @]
                IN  ApplyGroupMembers(s1, group_id, master_value, k + 1,
                                      Append(affected, ch_key))

\* Variant: the lowest contribution wins.
ApplyHTP_Lowest(s, ch_key) ==
    LET u == ch_key[1]
        c == ch_key[2]
        contribs == Contributions(s, u, c)
        vals == ContributionValues(contribs)
        htp_value == IF DOMAIN contribs # {} THEN CHOOSE x \in vals : \A y \in vals : x <= y
                     ELSE 0
    IN  IF IsChannelParked(s, u, c) THEN s
        ELSE [s EXCEPT !.channels[u] = UniverseSetChannel(@, c, htp_value),
                       !.channel_sources[u][c] = "group"]

\* HTP merge of one affected slot: highest contribution wins; parked slots
\* are skipped.
ApplyHTP(s, ch_key) ==
    LET u == ch_key[1]
        c == ch_key[2]
        contribs == Contributions(s, u, c)
        htp_value == IF DOMAIN contribs # {} THEN SetMax(ContributionValues(contribs)) ELSE 0
    IN  IF IsChannelParked(s, u, c) THEN s
        ELSE [s EXCEPT !.channels[u] = UniverseSetChannel(@, c, htp_value),
                       !.channel_sources[u][c] = "group"]

RECURSIVE ApplyHTPAll(_, _, _)
ApplyHTPAll(s, affected, k) ==
    IF k > Len(affected) THEN s
    ELSE ApplyHTPAll(ApplyHTP(s, affected[k]), affected, k + 1)

\* Universes written by the HTP loop (affected_universes).
AffectedUniverses(s, affected) ==
    {affected[k][1] : k \in {j \in 1..Len(affected) :
                                ~IsChannelParked(s, affected[j][1], affected[j][2])}}

RECURSIVE NotifyGroupChannels(_, _, _, _)
NotifyGroupChannels(s, affected, uid, k) ==
    IF k > Len(affected) THEN s
    ELSE IF affected[k][1] = uid
         THEN NotifyGroupChannels(
                  NotifyCallbacks(s, uid, affected[k][2],
                                  UniverseGetChannel(s.channels[uid], affected[k][2]), "group"),
                  affected, uid, k + 1)
         ELSE NotifyGroupChannels(s, affected, uid, k + 1)

RECURSIVE SendAndNotifyGroup(_, _, _)
SendAndNotifyGroup(s, affected, us) ==
    IF us = {} THEN s
    ELSE LET uid == CHOOSE x \in us : \A y \in us : x <= y
         IN  SendAndNotifyGroup(NotifyGroupChannels(SendUniverse(s, uid), affected, uid, 1),
                                affected, us \ {uid})

\* _hsl_to_rgb for integer h (0..360), s and l (0..100).  The code computes
\* in floats; c, x and m are kept here as exact numerators over 1200000:
\*   c = (1 - |2l - 1|) * s,  x = c * (1 - |(h / 60) % 2 - 1|),  m = l - c / 2.
\* int() truncates.  The colour states of the model are ones for which the
\* float computation gives the exact result.
hsl_to_rgb(h, s, l) ==
    IF s = 0
    THEN LET val == (l * 255) \div 100 IN <<val, val, val>>
    ELSE LET cn == (100 - Abs(2 * l - 100)) * s
             hx == 60 - Abs((h % 120) - 60)
             c == 120 * cn
             x == 2 * cn * hx
             m == 60 * (200 * l - cn)
             rgb == IF h < 60 THEN <<c, x, 0>>
                    ELSE IF h < 120 THEN <<x, c, 0>>
                    ELSE IF h < 180 THEN <<0, c, x>>
                    ELSE IF h < 240 THEN <<0, x, c>>
                    ELSE IF h < 300 THEN <<x, 0, c>>
                    ELSE <<c, 0, x>>
         IN  [i \in 1..3 |-> ((rgb[i] + m) * 255) \div 1200000]

Min3(a, b, c) == Min2(a, Min2(b, c))

\* _color_role_to_value
color_role_to_value(role, r, g, b) ==
    CASE role = "red" -> r
      [] role = "green" -> g
      [] role = "blue" -> b
      [] role = "yellow" -> Min2(r, g)
      [] role = "cyan" -> Min2(g, b)
      [] role = "magenta" -> Min2(r, b)
      [] role \in {"white", "warm_white", "cool_white"} -> Min3(r, g, b)
      [] role = "orange" -> IF r > g /\ b < Min2(r, g) THEN Min2(r, g * 2) ELSE 0
      [] role = "amber" -> IF r > 0 /\ g > 0 /\ b < Min2(r, g) THEN Min2(r, g) ELSE 0
      [] role = "lime" -> IF g > r /\ b < Min2(r, g) THEN Min2(g, r * 2) ELSE 0
      [] role = "uv" -> b
      [] OTHER -> 0

\* output_value = int(raw_value * brightness / 255)
ColorOutputValue(raw_value, brightness) == (raw_value * brightness) \div 255

\* The member loop of the color_mixer branch: members that are no channel
\* target, have no colour role or are parked are skipped.
RECURSIVE ApplyColorMembers(_, _, _, _, _)
ApplyColorMembers(s, group, rgb, brightness, k) ==
    IF k > Len(group.members) THEN s
    ELSE LET member == group.members[k]
         IN  IF \/ member.target_type # "channel"
                \/ member.color_role = ""
                \/ IsChannelParked(s, member.universe_id, member.channel)
             THEN ApplyColorMembers(s, group, rgb, brightness, k + 1)
             ELSE LET raw_value == color_role_to_value(member.color_role,
                                                       rgb[1], rgb[2], rgb[3])
                      output_value == ColorOutputValue(raw_value, brightness)
                      uid == member.universe_id
                      s1 == [s EXCEPT !.channels[uid] =
                                          UniverseSetChannel(@, member.channel, output_value),
                                      !.channel_sources[uid][member.channel] = "group"]
                  IN  ApplyColorMembers(s1, group, rgb, brightness, k + 1)

\* The universes the member loop wrote to.
ColorAffectedUniverses(s, group) ==
    {group.members[k].universe_id : k \in
        {j \in 1..Len(group.members) :
            /\ group.members[j].target_type = "channel"
            /\ group.members[j].color_role # ""
            /\ ~IsChannelParked(s, group.members[j].universe_id, group.members[j].channel)}}

\* The notification loop of the color_mixer branch: every channel member.
RECURSIVE NotifyColorMembers(_, _, _)
NotifyColorMembers(s, group, k) ==
    IF k > Len(group.members) THEN s
    ELSE LET member == group.members[k]
         IN  IF member.target_type # "channel"
             THEN NotifyColorMembers(s, group, k + 1)
             ELSE NotifyColorMembers(
                      NotifyCallbacks(s, member.universe_id, member.channel,
                                      UniverseGetChannel(s.channels[member.universe_id],
                                                         member.channel), "group"),
                      group, k + 1)

\* _apply_group, color_mixer branch
ApplyColorMixer(s, group_id, master_value) ==
    LET group == s.groups[group_id]
        rgb == hsl_to_rgb(group.color_state.h, group.color_state.s, group.color_state.l)
        s1 == ApplyColorMembers(s, group, rgb, master_value, 1)
        s2 == SendUniverses(s1, ColorAffectedUniverses(s, group))
    IN  NotifyColorMembers(s2, group, 1)

\* _apply_group for proportional and follow groups: the modes of the groups
\* that set_channel, set_channels and the input path trigger through a
\* physical master.
ApplyGroup(s, group_id, master_value) ==
    IF group_id \notin DOMAIN s.groups \/ ~s.groups[group_id].enabled THEN s
    ELSE LET r == ApplyGroupMembers(s, group_id, master_value, 1, <<>>)
             s1 == ApplyHTPAll(r.s, r.affected, 1)
         IN  SendAndNotifyGroup(s1, r.affected, AffectedUniverses(s1, r.affected))

\* for group_id in group_ids: store master_value, _apply_group (the group
\* trigger at the end of set_channel and of the regular-channel branch of
\* set_channels; the latter also broadcasts group_value_changed).
RECURSIVE TriggerGroups(_, _, _, _)
TriggerGroups(s, gids, value, broadcast) ==
    IF gids = {} THEN s
    ELSE LET g == CHOOSE x \in gids : \A y \in gids : x <= y
             s1 == [s EXCEPT !.groups[g].master_value = value]
             s2 == ApplyGroup(s1, g, value)
             s3 == IF broadcast
                   THEN Emit(s2, Event("group_value_changed", 0, g, value, "local"))
                   ELSE s2
         IN  TriggerGroups(s3, gids \ {g}, value, broadcast)

\* _apply_group as the group API reaches it: the color_mixer branch returns
\* before the member loop of the other modes.
apply_group(s, group_id, master_value) ==
    IF group_id \notin DOMAIN s.groups \/ ~s.groups[group_id].enabled THEN s
    ELSE IF s.groups[group_id].mode = "color_mixer"
    THEN ApplyColorMixer(s, group_id, master_value)
    ELSE ApplyGroup(s, group_id, master_value)

\* set_group_color: store the colour state, re-apply with the stored
\* brightness.
set_group_color(s, group_id, h, sat, l) ==
    IF group_id \notin DOMAIN s.groups \/ s.groups[group_id].mode # "color_mixer" THEN s
    ELSE LET s1 == [s EXCEPT !.groups[group_id].color_state = [h |-> h, s |-> sat, l |-> l]]
         IN  apply_group(s1, group_id, s1.groups[group_id].master_value)

apply_group_direct(s, group_id, master_value) ==
    LET s1 == IF group_id \in DOMAIN s.groups
              THEN [s EXCEPT !.groups[group_id].master_value = master_value]
              ELSE s
    IN  apply_group(s1, group_id, master_value)

----------------------------------------------------------------------------
(* Input-controlled channels *)

\* Variant: view_only reaches the output as well.
PassthroughToOutput_AnyMode(config) == config.passthrough_mode # "off"

PassthroughToOutput(config) == config.passthrough_mode \in {"faders_output", "output_only"}

\* get_input_controlled_channels with no channel mapping loaded
\* (_mapping_enabled = False): the direct input range of the universe.
\* dst_info dictionaries of _channel_map (None is 0)
ChannelTarget(u, c) ==
    [target_type |-> "channel", universe |-> u, channel |-> c,
     target_universe_id |-> 0]

UniverseMasterTarget(u) ==
    [target_type |-> "universe_master", universe |-> 0, channel |-> 0,
     target_universe_id |-> u]

GlobalMasterTarget ==
    [target_type |-> "global_master", universe |-> 0, channel |-> 0,
     target_universe_id |-> 0]

\* One entry of the mapping configuration handed to set_channel_mapping.
Mapping(src_universe, src_channel, dst) ==
    [src_universe |-> src_universe, src_channel |-> src_channel, dst |-> dst]

\* The loop of set_channel_mapping: the destinations of each source slot,
\* in the order of the configuration.
BuildChannelMap(mappings) ==
    [k \in Universes \X Channels |->
        LET ms == SelectSeq(mappings,
                            LAMBDA m : <<m.src_universe, m.src_channel>> = k)
        IN  [i \in 1..Len(ms) |-> ms[i].dst]]

set_channel_mapping(s, mappings, behavior) ==
    [s EXCEPT !.channel_map = BuildChannelMap(mappings),
              !.unmapped_behavior = behavior,
              !.mapping_enabled = (Len(mappings) > 0)]

SeqRange(q) == {q[i] : i \in DOMAIN q}

\* Channel destinations in universe dst_u of the sources of universe src_u.
MappedDestinations(s, src_u, dst_u) ==
    {d.channel : d \in {x \in UNION {SeqRange(s.channel_map[<<src_u, c>>]) : c \in Channels} :
                             x.target_type = "channel" /\ x.universe = dst_u}}

\* Sources of universe src_u that have a mapping entry.
MappedSources(s, src_u) ==
    {c \in Channels : s.channel_map[<<src_u, c>>] # <<>>}

ConfigRange(config) ==
    {c \in Channels : config.channel_start <= c /\ c <= config.channel_end}

\* get_input_controlled_channels: the direct range without a mapping; with
\* a mapping the destinations of every passthrough input and the unmapped
\* slots of the universe's own input.
get_input_controlled_channels(s, u) ==
    IF ~s.mapping_enabled
    THEN IF u \in s.inputs /\ PassthroughToOutput(s.passthrough_config[u])
         THEN ConfigRange(s.passthrough_config[u])
         ELSE {}
    ELSE
      LET srcs == {x \in s.inputs : PassthroughToOutput(s.passthrough_config[x])}
          mapped == UNION {MappedDestinations(s, x, u) : x \in srcs}
          mapped_dests == UNION {MappedDestinations(s, x, u) : x \in Universes}
          unmapped == IF s.unmapped_behavior = "passthrough" /\ u \in srcs
                      THEN ConfigRange(s.passthrough_config[u])
                               \ (mapped_dests \cup MappedSources(s, u))
                      ELSE {}
      IN  mapped \cup unmapped

----------------------------------------------------------------------------
(* Local writes *)

\* _pre_blackout_values.setdefault(u, universe.get_all()); [...][channel - 1] = value
StorePreBlackout(s, u, channel, value) ==
    LET base == IF u \in DOMAIN s.pre_blackout_values
                THEN s.pre_blackout_values[u] ELSE s.channels[u]
    IN  [s EXCEPT !.pre_blackout_values =
            (u :> [base EXCEPT ![channel] = value]) @@ @]

set_channel(s, u, channel, value, source, from_group) ==
    IF s.blackout_active
    THEN StorePreBlackout(s, u, channel, value)
    ELSE IF IsChannelParked(s, u, channel)
    THEN NotifyCallbacks(s, u, channel, s.parked_channels[u][channel], "park_reject")
    ELSE
      LET s1 == IF IsUserSource(source)
                THEN [s EXCEPT !.local_values[u][channel] = value]
                ELSE s
          s2 == [s1 EXCEPT !.channels[u] = UniverseSetChannel(@, channel, value)]
          s3 == SendUniverse(s2, u)
          s4 == [s3 EXCEPT !.channel_sources[u][channel] = source]
          s5 == NotifyCallbacks(s4, u, channel, value, source)
      IN  IF from_group THEN s5
          ELSE TriggerGroups(s5, MasterToGroups(s5, u, channel), value, FALSE)

\* _get_groups_containing_member: enabled groups with (u, channel) as member.
GroupsContainingMember(s, u, channel) ==
    {g \in DOMAIN s.groups :
        /\ s.groups[g].enabled
        /\ \E k \in 1..Len(s.groups[g].members) :
              /\ s.groups[g].members[k].universe_id = u
              /\ s.groups[g].members[k].channel = channel}

\* _get_member_base_value: base value of the first matching member.
GetMemberBaseValue(group, u, channel) ==
    LET ks == {k \in 1..Len(group.members) :
                  /\ group.members[k].universe_id = u
                  /\ group.members[k].channel = channel}
    IN  IF ks = {} THEN 255
        ELSE group.members[CHOOSE k \in ks : \A j \in ks : k <= j].base_value

\* Reverse-calculated master for a member write.
ReverseMaster(group, u, channel, value) ==
    IF group.mode = "follow" THEN value
    ELSE LET base_value == GetMemberBaseValue(group, u, channel)
         IN  IF base_value > 0 THEN Min2(255, PyRound(value * 255, base_value))
             ELSE value

\* groups_to_update[group_id] = (group, new_master, channel) when the group
\* is new or new_master is higher; a dict keeps its first insertion position.
TrackGroupUpdate(gtu, group_id, new_master) ==
    LET ks == {k \in 1..Len(gtu) : gtu[k].group_id = group_id}
    IN  IF ks = {} THEN Append(gtu, [group_id |-> group_id, new_master |-> new_master])
        ELSE LET k == CHOOSE x \in ks : TRUE
             IN  IF new_master > gtu[k].new_master
                 THEN [gtu EXCEPT ![k].new_master = new_master]
                 ELSE gtu

\* Parked channels of the request: one park_reject each, then dropped.
RECURSIVE RejectParked(_, _, _, _)
RejectParked(s, u, values, k) ==
    IF k > Len(values) THEN s
    ELSE LET ch == values[k][1]
         IN  IF IsChannelParked(s, u, ch)
             THEN RejectParked(NotifyCallbacks(s, u, ch, s.parked_channels[u][ch], "park_reject"),
                               u, values, k + 1)
             ELSE RejectParked(s, u, values, k + 1)

UnparkedValues(s, u, values) ==
    SelectSeq(values, LAMBDA p : ~IsChannelParked(s, u, p[1]))

\* The classification loop of set_channels.  Returns the state (with the
\* group_reject events), regular_channels and groups_to_update.
RECURSIVE ClassifyChannels(_, _, _, _, _, _, _)
ClassifyChannels(s, u, values, source, k, regular, gtu) ==
    IF k > Len(values) THEN [s |-> s, regular |-> regular, gtu |-> gtu]
    ELSE
      LET channel == values[k][1]
          value == values[k][2]
          gs == GroupsContainingMember(s, u, channel)
          current_value == UniverseGetChannel(s.channels[u], channel)
      IN  IF IsUserSource(source) /\ Cardinality(gs) = 1
          THEN LET g == CHOOSE x \in gs : TRUE
                   group == s.groups[g]
               IN  IF /\ HasPhysicalMaster(group)
                      /\ ~s.input_bypass_active
                      /\ group.master_channel \in
                             get_input_controlled_channels(s, group.master_universe)
                   THEN ClassifyChannels(
                            NotifyCallbacks(s, u, channel, current_value, "group_reject"),
                            u, values, source, k + 1, regular, gtu)
                   ELSE ClassifyChannels(s, u, values, source, k + 1, regular,
                            TrackGroupUpdate(gtu, g, ReverseMaster(group, u, channel, value)))
          ELSE IF IsUserSource(source) /\ Cardinality(gs) > 1
          THEN ClassifyChannels(
                   NotifyCallbacks(s, u, channel, current_value, "group_reject"),
                   u, values, source, k + 1, regular, gtu)
          ELSE ClassifyChannels(s, u, values, source, k + 1,
                                Append(regular, values[k]), gtu)

RECURSIVE WriteLocal(_, _, _, _)
WriteLocal(s, u, regular, k) ==
    IF k > Len(regular) THEN s
    ELSE WriteLocal([s EXCEPT !.local_values[u][regular[k][1]] = regular[k][2]],
                    u, regular, k + 1)

\* Per channel: under blackout the value goes to the pre-blackout frame,
\* otherwise to the universe.
RECURSIVE WriteRegular(_, _, _, _, _)
WriteRegular(s, u, regular, source, k) ==
    IF k > Len(regular) THEN s
    ELSE LET channel == regular[k][1]
             value == regular[k][2]
             s1 == IF s.blackout_active
                   THEN StorePreBlackout(s, u, channel, value)
                   ELSE [s EXCEPT !.channels[u] = UniverseSetChannel(@, channel, value),
                                  !.channel_sources[u][channel] = source]
         IN  WriteRegular(s1, u, regular, source, k + 1)

RECURSIVE NotifyRegular(_, _, _, _, _)
NotifyRegular(s, u, regular, source, k) ==
    IF k > Len(regular) THEN s
    ELSE NotifyRegular(NotifyCallbacks(s, u, regular[k][1], regular[k][2], source),
                       u, regular, source, k + 1)

RECURSIVE TriggerRegularMasters(_, _, _, _)
TriggerRegularMasters(s, u, regular, k) ==
    IF k > Len(regular) THEN s
    ELSE TriggerRegularMasters(
             TriggerGroups(s, MasterToGroups(s, u, regular[k][1]), regular[k][2], TRUE),
             u, regular, k + 1)

ProcessRegular(s, u, regular, source) ==
    IF regular = <<>> THEN s
    ELSE LET s1 == IF IsUserSource(source) THEN WriteLocal(s, u, regular, 1) ELSE s
             s2 == WriteRegular(s1, u, regular, source, 1)
         IN  IF s2.blackout_active THEN s2
             ELSE TriggerRegularMasters(
                      NotifyRegular(SendUniverse(s2, u), u, regular, source, 1),
                      u, regular, 1)

\* Reverse routing: the new master goes through the normal group path; a
\* physical master channel is written with source group_reverse.
RECURSIVE ProcessGroupUpdates(_, _, _)
ProcessGroupUpdates(s, gtu, k) ==
    IF k > Len(gtu) THEN s
    ELSE
      LET g == gtu[k].group_id
          new_master == gtu[k].new_master
          s1 == [s EXCEPT !.groups[g].master_value = new_master]
          s2 == ApplyGroup(s1, g, new_master)
          s3 == Emit(s2, Event("group_value_changed", 0, g, new_master, "local"))
          group == s3.groups[g]
          mu == group.master_universe
          mc == group.master_channel
          s4 == IF HasPhysicalMaster(group) /\ mu \in Universes /\ ~s3.blackout_active
                THEN LET a == [s3 EXCEPT !.channels[mu] = UniverseSetChannel(@, mc, new_master)]
                         b == SendUniverse(a, mu)
                         c == [b EXCEPT !.channel_sources[mu][mc] = "group_reverse"]
                     IN  NotifyCallbacks(c, mu, mc, new_master, "group_reverse")
                ELSE s3
      IN  ProcessGroupUpdates(s4, gtu, k + 1)

\* values: the request dict as a sequence of <<channel, value>> pairs in
\* insertion order, channels distinct.
set_channels(s, u, values, source) ==
    LET s1 == RejectParked(s, u, values, 1)
        rest == UnparkedValues(s, u, values)
    IN  IF rest = <<>> THEN s1
        ELSE LET r == ClassifyChannels(s1, u, rest, source, 1, <<>>, <<>>)
                 s2 == ProcessRegular(r.s, u, r.regular, source)
             IN  ProcessGroupUpdates(s2, r.gtu, 1)

----------------------------------------------------------------------------
(* Blackout *)

\* for universe_id, universe in self.universes.items(): capture, zero, send
RECURSIVE BlackoutUniverses(_, _)
BlackoutUniverses(s, us) ==
    IF us = {} THEN s
    ELSE LET u == CHOOSE x \in us : \A y \in us : x <= y
             s1 == [s EXCEPT !.pre_blackout_values = (u :> s.channels[u]) @@ @,
                             !.channels[u] = Zeros]
         IN  BlackoutUniverses(SendUniverse(s1, u), us \ {u})

blackout(s) ==
    LET s1 == [s EXCEPT !.blackout_active = TRUE, !.pre_blackout_values = <<>>]
        s2 == BlackoutUniverses(s1, Universes)
    IN  Emit(s2, Event("blackout", 0, 0, 1, ""))

RECURSIVE RestoreUniverses(_, _)
RestoreUniverses(s, us) ==
    IF us = {} THEN s
    ELSE LET u == CHOOSE x \in us : \A y \in us : x <= y
             s1 == [s EXCEPT !.channels[u] = UniverseSetAll(@, s.pre_blackout_values[u])]
         IN  RestoreUniverses(SendUniverse(s1, u), us \ {u})

release_blackout(s) ==
    LET s1 == [s EXCEPT !.blackout_active = FALSE]
        s2 == RestoreUniverses(s1, DOMAIN s1.pre_blackout_values)
        s3 == [s2 EXCEPT !.pre_blackout_values = <<>>]
    IN  Emit(s3, Event("blackout", 0, 0, 0, ""))

----------------------------------------------------------------------------
(* Park *)

park_channel(s, u, channel, value) ==
    IF ~(1 <= channel /\ channel <= NumChannels) \/ ~(0 <= value /\ value <= 255)
    THEN s
    ELSE LET s1 == [s EXCEPT !.parked_channels[u] = (channel :> value) @@ @,
                             !.channels[u] = UniverseSetChannel(@, channel, value)]
             s2 == SendUniverse(s1, u)
         IN  Emit(s2, Event("park_update", u, channel, value, "parked"))

unpark_channel(s, u, channel) ==
    IF ~IsChannelParked(s, u, channel) THEN s
    ELSE LET rest == DOMAIN s.parked_channels[u] \ {channel}
             s1 == [s EXCEPT !.parked_channels[u] = [c \in rest |-> @[c]]]
             s2 == SendUniverse(s1, u)
         IN  Emit(s2, Event("park_update", u, channel, 0, "unparked"))

----------------------------------------------------------------------------
(* Highlight / solo *)

BroadcastHighlightState(s) ==
    Emit(s, Event("highlight_update", 0, 0, s.highlight_dim_level,
                  IF s.highlight_active THEN "active" ELSE "inactive"))

start_highlight(s, u, chans, dim_level) ==
    LET s1 == [s EXCEPT !.highlight_active = TRUE,
                        !.highlight_dim_level = Clamp(dim_level),
                        !.highlighted_channels[u] = @ \cup (chans \cap Channels)]
    IN  BroadcastHighlightState(SendUniverses(s1, Universes))

stop_highlight(s) ==
    LET s1 == [s EXCEPT !.highlight_active = FALSE,
                        !.highlighted_channels = [u \in Universes |-> {}],
                        !.highlight_dim_level = 0]
    IN  BroadcastHighlightState(SendUniverses(s1, Universes))

add_to_highlight(s, u, channel) ==
    IF ~(1 <= channel /\ channel <= NumChannels) THEN s
    ELSE LET s1 == [s EXCEPT !.highlight_active = TRUE,
                             !.highlighted_channels[u] = @ \cup {channel}]
         IN  BroadcastHighlightState(SendUniverses(s1, Universes))

remove_from_highlight(s, u, channel) ==
    LET s1 == [s EXCEPT !.highlighted_channels[u] = @ \ {channel}]
    IN  IF \A x \in Universes : s1.highlighted_channels[x] = {}
        THEN stop_highlight(s1)
        ELSE BroadcastHighlightState(SendUniverses(s1, Universes))

----------------------------------------------------------------------------
(* Input passthrough *)

\* dict.get(group_id) of a group that has no entry in _last_group_values.
NoValue == -1

\* _input_jitter_threshold
JitterThreshold == 2

InputRange(config) ==
    {c \in Channels : config.channel_start <= c /\ c <= config.channel_end}

\* Variant: no throttle.
BroadcastDue_Always(age) == TRUE

\* now - last_broadcast >= interval
BroadcastDue(age) == age >= BroadcastInterval

\* One group master hit by the input value: skipped when the value equals
\* the group's last value; the broadcast is throttled per group.
CheckGroupMaster(s, g, value) ==
    IF s.last_group_values[g] = value THEN s
    ELSE LET s1 == [s EXCEPT !.last_group_values[g] = value,
                             !.groups[g].master_value = value]
         IN  CHOOSE r \in
                 {IF BroadcastDue(s2.group_broadcast_age[g])
                  THEN [s2 EXCEPT !.group_broadcast_age[g] = 0,
                                  !.pending_broadcasts =
                                      Append(@, Event("group_value_changed", 0, g, value, "input"))]
                  ELSE s2 : s2 \in {ApplyGroup(s1, g, value)}} : TRUE

RECURSIVE CheckGroupMastersOfChannel(_, _, _)
CheckGroupMastersOfChannel(s, gids, value) ==
    IF gids = {} THEN s
    ELSE LET g == CHOOSE x \in gids : \A y \in gids : x <= y
         IN  CHOOSE r \in
                 {CheckGroupMastersOfChannel(s1, gids \ {g}, value) :
                    s1 \in {CheckGroupMaster(s, g, value)}} : TRUE

RECURSIVE CheckGroupMastersLoop(_, _, _, _)
CheckGroupMastersLoop(s, u, chans, values) ==
    IF chans = {} THEN s
    ELSE LET c == CHOOSE x \in chans : \A y \in chans : x <= y
         IN  CHOOSE r \in
                 {CheckGroupMastersLoop(s1, u, chans \ {c}, values) :
                    s1 \in {CheckGroupMastersOfChannel(s, MasterToGroups(s, u, c),
                                                       values[c])}} : TRUE

\* _check_group_masters_for_input: the groups_to_broadcast list is flushed
\* after the loop.
check_group_masters_for_input(s, u, channels_changed, values) ==
    CHOOSE r \in
        {IF \A c \in channels_changed : MasterToGroups(s0, u, c) = {} THEN s0
         ELSE CHOOSE r1 \in
                  {[s1 EXCEPT !.events = @ \o s1.pending_broadcasts,
                              !.pending_broadcasts = <<>>] :
                     s1 \in {CheckGroupMastersLoop(
                                 [s0 EXCEPT !.pending_broadcasts = <<>>],
                                 u, channels_changed, values)}} : TRUE :
           s0 \in {s}} : TRUE

\* Variant: LTP without the jitter filter.
LTPValue_NoFilter(input_val, last_val, current_val) == input_val

LTPValue(input_val, last_val, current_val) ==
    IF input_val = 0 \/ Abs(input_val - last_val) > JitterThreshold
    THEN input_val ELSE current_val

\* Variant: in HTP mode the input value replaces the local value.
apply_passthrough_InputWins(s, u, input_channels, mode) ==
    IF s.blackout_active THEN s
    ELSE
      LET range == InputRange(s.passthrough_config[u])
          local == s.local_values[u]
          merged == [i \in Channels |->
                       IF i \in range THEN input_channels[i] ELSE local[i]]
          s1 == [s EXCEPT !.channels[u] = UniverseSetAll(@, merged)]
      IN  check_group_masters_for_input(SendUniverse(s1, u), u, range, input_channels)

\* _apply_passthrough (direct, no channel mapping)
apply_passthrough(s, u, input_channels, mode) ==
    IF s.blackout_active THEN s
    ELSE
      LET range == InputRange(s.passthrough_config[u])
          s1 == IF mode = "ltp"
                THEN LET last == s.last_applied_input[u]
                         current == [i \in Channels |->
                                       IF i \in range
                                       THEN LTPValue(input_channels[i], last[i], s.channels[u][i])
                                       ELSE s.channels[u][i]]
                     IN  [s EXCEPT !.channels[u] = UniverseSetAll(@, current),
                                   !.last_applied_input[u] = input_channels]
                ELSE LET local == s.local_values[u]
                         merged == [i \in Channels |->
                                      IF i \in range THEN Max2(local[i], input_channels[i])
                                      ELSE local[i]]
                     IN  [s EXCEPT !.channels[u] = UniverseSetAll(@, merged)]
      IN  check_group_masters_for_input(SendUniverse(s1, u), u, range, input_channels)

\* _apply_selective_values: the merge on the active slots only.
apply_selective_values(s, u, input_channels, active_channels, mode) ==
    LET last == s.last_applied_input[u]
        local == s.local_values[u]
        current == [i \in Channels |->
                      IF i \in active_channels
                      THEN IF mode = "ltp"
                           THEN LTPValue(input_channels[i], last[i], s.channels[u][i])
                           ELSE Max2(local[i], input_channels[i])
                      ELSE s.channels[u][i]]
        s1 == IF mode = "ltp"
              THEN [s EXCEPT !.last_applied_input[u] =
                                [i \in Channels |->
                                    IF i \in active_channels THEN input_channels[i] ELSE @[i]]]
              ELSE s
        s2 == [s1 EXCEPT !.channels[u] = UniverseSetAll(@, current)]
    IN  check_group_masters_for_input(SendUniverse(s2, u), u, active_channels,
                                      input_channels)

\* dst_values / dst_has_value of a frame that is being routed; order is
\* the insertion order of the destination universes.
NoRouting ==
    [dst_values |-> [u \in Universes |-> Zeros],
     dst_has_value |-> [u \in Universes |-> {}],
     order |-> <<>>]

RouteValue(acc, dst_universe, dst_ch, value) ==
    [dst_values |-> [acc.dst_values EXCEPT ![dst_universe][dst_ch] = value],
     dst_has_value |-> [acc.dst_has_value EXCEPT ![dst_universe] = @ \cup {dst_ch}],
     order |-> IF dst_universe \in SeqRange(acc.order) THEN acc.order
               ELSE Append(acc.order, dst_universe)]

\* The destinations of one mapped source, in order (channel targets).
RECURSIVE RouteDestinations(_, _, _, _)
RouteDestinations(acc, destinations, j, value) ==
    IF j > Len(destinations) THEN acc
    ELSE LET d == destinations[j]
         IN  CHOOSE r \in
                 {RouteDestinations(a, destinations, j + 1, value) :
                    a \in {IF d.target_type = "channel" /\ d.universe # 0 /\ d.channel # 0
                           THEN RouteValue(acc, d.universe, d.channel, value)
                           ELSE acc}} : TRUE

\* Variant: unmapped channels pass through onto mapped destinations too.
UnmappedPassesThrough_Unprotected(s, u, src_ch) ==
    /\ s.unmapped_behavior = "passthrough"
    /\ src_ch \in ConfigRange(s.passthrough_config[u])

\* An unmapped source slot passes 1:1 into its own universe.
UnmappedPassesThrough(s, u, src_ch) ==
    /\ s.unmapped_behavior = "passthrough"
    /\ src_ch \in ConfigRange(s.passthrough_config[u])
    /\ src_ch \notin MappedDestinations(s, u, u)

\* The loop over the source channels of _apply_mapped_passthrough.
RECURSIVE RouteFrame(_, _, _, _, _)
RouteFrame(acc, s, u, input_channels, src_ch) ==
    IF src_ch > NumChannels THEN acc
    ELSE LET destinations == s.channel_map[<<u, src_ch>>]
             value == input_channels[src_ch]
         IN  CHOOSE r \in
                 {RouteFrame(a, s, u, input_channels, src_ch + 1) :
                    a \in {IF destinations # <<>>
                           THEN RouteDestinations(acc, destinations, 1, value)
                           ELSE IF UnmappedPassesThrough(s, u, src_ch)
                                THEN RouteValue(acc, u, src_ch, value)
                                ELSE acc}} : TRUE

\* The grandmaster targets of the mapped sources, set while the frame is
\* routed.
RECURSIVE RouteMasterDestinations(_, _, _, _)
RouteMasterDestinations(s, destinations, j, value) ==
    IF j > Len(destinations) THEN s
    ELSE LET d == destinations[j]
         IN  CHOOSE r \in
                 {RouteMasterDestinations(s1, destinations, j + 1, value) :
                    s1 \in {IF d.target_type = "universe_master"
                            THEN set_universe_grandmaster(s, d.target_universe_id, value)
                            ELSE IF d.target_type = "global_master"
                                 THEN set_global_grandmaster(s, value)
                                 ELSE s}} : TRUE

RECURSIVE RouteMasters(_, _, _, _)
RouteMasters(s, u, input_channels, src_ch) ==
    IF src_ch > NumChannels THEN s
    ELSE CHOOSE r \in
             {RouteMasters(s1, u, input_channels, src_ch + 1) :
                s1 \in {RouteMasterDestinations(s, s.channel_map[<<u, src_ch>>], 1,
                                                input_channels[src_ch])}} : TRUE

RECURSIVE ApplyRouted(_, _, _, _)
ApplyRouted(s, acc, k, mode) ==
    IF k > Len(acc.order) THEN s
    ELSE LET dst == acc.order[k]
         IN  CHOOSE r \in
                 {ApplyRouted(s1, acc, k + 1, mode) :
                    s1 \in {apply_selective_values(s, dst, acc.dst_values[dst],
                                                   acc.dst_has_value[dst], mode)}} : TRUE

\* _apply_mapped_passthrough
apply_mapped_passthrough(s, u, input_channels, mode) ==
    IF s.blackout_active THEN s
    ELSE CHOOSE r \in
             {ApplyRouted(s1, acc, 1, mode) :
                s1 \in {RouteMasters(s, u, input_channels, 1)},
                acc \in {RouteFrame(NoRouting, s, u, input_channels, 1)}} : TRUE

notify_input_received(s, u, input_channels) ==
    Emit(s, Event("input_received", u, 0, 0, "input"))

\* _notify_input_to_ui: local values and source tags of the range follow
\* the input.
notify_input_to_ui(s, u, input_channels) ==
    LET range == InputRange(s.passthrough_config[u])
        s1 == [s EXCEPT !.local_values[u] =
                           [i \in Channels |-> IF i \in range THEN input_channels[i] ELSE @[i]],
                        !.channel_sources[u] =
                           [i \in Channels |-> IF i \in range THEN "input" ELSE @[i]]]
    IN  Emit(s1, Event("input_to_ui", u, 0, 0, "input"))

RECURSIVE NotifyRouted(_, _, _)
NotifyRouted(s, acc, k) ==
    IF k > Len(acc.order) THEN s
    ELSE LET dst == acc.order[k]
             controlled == acc.dst_has_value[dst]
             s1 == [s EXCEPT !.local_values[dst] =
                                [i \in Channels |->
                                    IF i \in controlled THEN acc.dst_values[dst][i] ELSE @[i]],
                             !.channel_sources[dst] =
                                [i \in Channels |-> IF i \in controlled THEN "input" ELSE @[i]]]
         IN  CHOOSE r \in
                 {NotifyRouted(s2, acc, k + 1) :
                    s2 \in {Emit(s1, Event("input_to_ui", dst, 0, 0, "input"))}} : TRUE

\* _notify_mapped_input_to_ui: the faders of the routed slots follow the
\* input.
notify_mapped_input_to_ui(s, u, input_channels) ==
    CHOOSE r \in
        {NotifyRouted(s1, acc, 1) :
           s1 \in {s}, acc \in {RouteFrame(NoRouting, s, u, input_channels, 1)}} : TRUE

\* _on_input_received
on_input_received(s, u, input_channels) ==
    LET s1 == [s EXCEPT !.input_values[u] = input_channels]
        config == s.passthrough_config[u]
        passthrough_mode == config.passthrough_mode
        due == BroadcastDue(s1.input_broadcast_age[u])
    IN  IF s1.input_bypass_active
        THEN IF due
             THEN notify_input_received([s1 EXCEPT !.input_broadcast_age[u] = 0],
                                        u, input_channels)
             ELSE s1
        ELSE
          LET s2 == IF PassthroughToOutput(config)
                    THEN IF s1.mapping_enabled
                         THEN apply_mapped_passthrough(s1, u, input_channels, config.mode)
                         ELSE apply_passthrough(s1, u, input_channels, config.mode)
                    ELSE s1
          IN  IF ~due THEN s2
              ELSE LET s3 == notify_input_received(
                                 [s2 EXCEPT !.input_broadcast_age[u] = 0], u, input_channels)
                   IN  IF passthrough_mode \in {"view_only", "faders_output"}
                       THEN IF s3.mapping_enabled
                            THEN notify_mapped_input_to_ui(s3, u, input_channels)
                            ELSE notify_input_to_ui(s3, u, input_channels)
                       ELSE s3

\* Variant: the local values of the range are kept.
RECURSIVE ReapplyInputs_KeepLocal(_, _)
ReapplyInputs_KeepLocal(s, us) ==
    IF us = {} THEN s
    ELSE LET u == CHOOSE x \in us : \A y \in us : x <= y
             s2 == [s EXCEPT !.input_broadcast_age[u] = BroadcastInterval]
         IN  ReapplyInputs_KeepLocal(on_input_received(s2, u, s2.input_values[u]), us \ {u})

RECURSIVE ReapplyInputs(_, _)
ReapplyInputs(s, us) ==
    IF us = {} THEN s
    ELSE LET u == CHOOSE x \in us : \A y \in us : x <= y
             config == s.passthrough_config[u]
             range == InputRange(config)
             s1 == IF PassthroughToOutput(config)
                   THEN [s EXCEPT !.local_values[u] =
                                     [i \in Channels |-> IF i \in range THEN 0 ELSE @[i]]]
                   ELSE s
             s2 == [s1 EXCEPT !.input_broadcast_age[u] = BroadcastInterval]
         IN  ReapplyInputs(on_input_received(s2, u, s2.input_values[u]), us \ {u})

set_input_bypass(s, bypass) ==
    LET was_active == s.input_bypass_active
        s1 == [s EXCEPT !.input_bypass_active = bypass]
    IN  IF was_active /\ ~bypass
        THEN ReapplyInputs(
                 [s1 EXCEPT !.last_group_values = [g \in DOMAIN @ |-> NoValue],
                            !.group_broadcast_age = [g \in DOMAIN @ |-> BroadcastInterval]],
                 s1.inputs)
        ELSE s1

----------------------------------------------------------------------------
(* Scenes: api/scenes.py and the MIDI recall of main.py *)

\* set_channels_silent: as set_channels without parked rejects, group
\* handling and callbacks.
set_channels_silent(s, u, values, source) ==
    LET rest == UnparkedValues(s, u, values)
    IN  IF rest = <<>> THEN s
        ELSE CHOOSE r \in
                 {IF s2.blackout_active THEN s2 ELSE SendUniverse(s2, u) :
                    s2 \in {WriteRegular(IF IsUserSource(source)
                                         THEN WriteLocal(s, u, rest, 1) ELSE s,
                                         u, rest, source, 1)}} : TRUE

\* Rows of the scene_values, scene_group_values and scene_master_values
\* tables (universe_id 0 = NULL).
SceneValue(u, c, v) == [universe_id |-> u, channel |-> c, value |-> v]
SceneGroupValue(g, v) == [group_id |-> g, master_value |-> v]
SceneMasterValue(type, u, v) == [master_type |-> type, universe_id |-> u, value |-> v]

\* d[key] = value on a dict kept as a sequence of pairs in insertion order.
DictSet(d, key, value) ==
    IF \E i \in DOMAIN d : d[i][1] = key
    THEN [i \in DOMAIN d |-> IF d[i][1] = key THEN <<key, value>> ELSE d[i]]
    ELSE Append(d, <<key, value>>)

DictGet(d, key, default) ==
    IF \E i \in DOMAIN d : d[i][1] = key
    THEN d[CHOOSE i \in DOMAIN d : d[i][1] = key][2]
    ELSE default

\* target_values[sv.universe_id][sv.channel] = sv.value for sv in scene.values
RECURSIVE BuildTargetValues(_, _, _)
BuildTargetValues(values, k, acc) ==
    IF k > Len(values) THEN acc
    ELSE LET sv == values[k]
         IN  BuildTargetValues(values, k + 1,
                 DictSet(acc, sv.universe_id,
                         DictSet(DictGet(acc, sv.universe_id, <<>>),
                                 sv.channel, sv.value)))

\* controlled: the input-controlled channels of uid plus uid's members of
\* every enabled group whose physical master is input-controlled.
RecallControlled(s, uid) ==
    LET linked == {g \in DOMAIN s.groups :
                     /\ s.groups[g].enabled
                     /\ HasPhysicalMaster(s.groups[g])
                     /\ s.groups[g].master_channel \in
                          get_input_controlled_channels(s, s.groups[g].master_universe)}
        members == UNION {SeqRange(s.groups[g].members) : g \in linked}
    IN  get_input_controlled_channels(s, uid)
        \cup {m.channel : m \in {x \in members : x.universe_id = uid}}

\* filtered_values of recall_scene.
FilterTargets(s, targets) ==
    [i \in DOMAIN targets |->
        LET uid == targets[i][1]
            chans == targets[i][2]
        IN  IF s.input_bypass_active THEN targets[i]
            ELSE IF uid \in s.inputs
            THEN CHOOSE r \in
                     {<<uid, SelectSeq(chans, LAMBDA p : p[1] \notin controlled)>> :
                        controlled \in {RecallControlled(s, uid)}} : TRUE
            ELSE targets[i]]

\* Instant transition: set_channels per universe with channels left.
RECURSIVE ApplyInstant(_, _, _)
ApplyInstant(s, filtered, k) ==
    IF k > Len(filtered) THEN s
    ELSE CHOOSE r \in
             {ApplyInstant(s1, filtered, k + 1) :
                s1 \in {IF filtered[k][2] # <<>>
                        THEN set_channels(s, filtered[k][1], filtered[k][2], "local")
                        ELSE s}} : TRUE

\* One scene group value: skipped when the group's physical master is
\* input-controlled (bypass off); otherwise the runtime master_value is set
\* and a physical master channel is written without applying the group.
RestoreGroupValue(s, gv, bypass_active) ==
    IF gv.group_id \notin DOMAIN s.groups THEN s
    ELSE LET group == s.groups[gv.group_id]
             skip_restore ==
                 /\ ~bypass_active
                 /\ HasPhysicalMaster(group)
                 /\ group.master_channel \in
                        get_input_controlled_channels(s, group.master_universe)
         IN  IF skip_restore THEN s
             ELSE LET s1 == [s EXCEPT !.groups[gv.group_id].master_value = gv.master_value]
                  IN  IF HasPhysicalMaster(group)
                      THEN set_channel(s1, group.master_universe, group.master_channel,
                                       gv.master_value, "scene_recall", TRUE)
                      ELSE s1

RECURSIVE RestoreGroupValues(_, _, _, _)
RestoreGroupValues(s, group_values, bypass_active, k) ==
    IF k > Len(group_values) THEN s
    ELSE CHOOSE r \in
             {RestoreGroupValues(s1, group_values, bypass_active, k + 1) :
                s1 \in {RestoreGroupValue(s, group_values[k], bypass_active)}} : TRUE

\* The stored value scales the current grandmaster instead of replacing it.
RestoreMasterValue_Relative(s, mv) ==
    IF mv.master_type = "global"
    THEN set_global_grandmaster(s, PyRound(s.global_grandmaster * mv.value, 255))
    ELSE IF mv.master_type = "universe" /\ mv.universe_id # 0
    THEN set_universe_grandmaster(s, mv.universe_id,
             PyRound(s.universe_grandmasters[mv.universe_id] * mv.value, 255))
    ELSE s

\* One scene master value.
RestoreMasterValue(s, mv) ==
    IF mv.master_type = "global"
    THEN set_global_grandmaster(s, mv.value)
    ELSE IF mv.master_type = "universe" /\ mv.universe_id # 0
    THEN set_universe_grandmaster(s, mv.universe_id, mv.value)
    ELSE s

RECURSIVE RestoreMasterValues(_, _, _)
RestoreMasterValues(s, master_values, k) ==
    IF k > Len(master_values) THEN s
    ELSE CHOOSE r \in
             {RestoreMasterValues(s1, master_values, k + 1) :
                s1 \in {RestoreMasterValue(s, master_values[k])}} : TRUE

\* set_active_scene (the MIDI feedback notes are not part of the state)
set_active_scene(s, scene_id) == [s EXCEPT !.active_scene_id = scene_id]

\* recall_scene after the transition: group masters, grandmasters, active scene.
FinishRecall(s, scene_id, scene, bypass_active) ==
    CHOOSE r \in
        {set_active_scene(RestoreMasterValues(s1, scene.master_values, 1), scene_id) :
           s1 \in {RestoreGroupValues(s, scene.group_values, bypass_active, 1)}} : TRUE

\* Length of one fade frame in milliseconds.
FadeFrameMs == 33

\* steps = max(1, duration_ms // 33)
FadeSteps(duration_ms) == Max2(1, duration_ms \div FadeFrameMs)

\* int(...): truncation toward zero.
TruncDiv(n, d) == IF n >= 0 THEN n \div d ELSE -((-n) \div d)

\* progress reversed: the sequence runs from the target back to the start.
FadeValue_Reversed(start, target, step, n_steps) ==
    TruncDiv(start * n_steps + (target - start) * (n_steps - step), n_steps)

\* Variant: the loop runs over range(steps) and ends one step short.
FadeValue_HalfOpen(start, target, step, n_steps) ==
    TruncDiv(start * n_steps + (target - start) * (step - 1), n_steps)

\* int(start + (target_value - start) * progress), progress = step / steps,
\* in exact arithmetic; for steps <= 4 this is the value Python's floats give.
FadeValue(start, target, step, n_steps) ==
    TruncDiv(start * n_steps + (target - start) * step, n_steps)

\* new_values of one universe at one step.
FadeNewValues(chans, start, step, n_steps) ==
    [i \in DOMAIN chans |->
        <<chans[i][1], FadeValue(start[chans[i][1]], chans[i][2], step, n_steps)>>]

\* One pass of the step loop: a silent write per universe.
RECURSIVE FadeWrite(_, _, _, _, _, _)
FadeWrite(s, targets, start_values, step, n_steps, k) ==
    IF k > Len(targets) THEN s
    ELSE CHOOSE r \in
             {FadeWrite(s1, targets, start_values, step, n_steps, k + 1) :
                s1 \in {set_channels_silent(s, targets[k][1],
                            FadeNewValues(targets[k][2], start_values[targets[k][1]],
                                          step, n_steps),
                            "local")}} : TRUE

\* The locals of a recall_scene coroutine suspended in the sleep of apply_fade.
FadeTask(scene_id, bypass_active, targets, start_values, step, n_steps) ==
    [scene_id |-> scene_id, bypass_active |-> bypass_active, targets |-> targets,
     start_values |-> start_values, step |-> step, steps |-> n_steps,
     new_values |-> [k \in DOMAIN targets |->
                        FadeNewValues(targets[k][2], start_values[targets[k][1]],
                                      step, n_steps)]]

\* apply_fade up to its first sleep: start values captured, step 1 written.
\* The crossfade flag is not read by apply_fade.
apply_fade(s, scene_id, bypass_active, target_values, duration_ms) ==
    IF duration_ms <= 0
    THEN ApplyInstant(s, target_values, 1)
    ELSE LET start_values == [u \in {target_values[k][1] : k \in DOMAIN target_values}
                                 |-> s.channels[u]]
             n_steps == FadeSteps(duration_ms)
         IN  CHOOSE r \in
                 {[s1 EXCEPT !.fades = Append(@, FadeTask(scene_id, bypass_active,
                                                          target_values, sv, 1, n_steps))] :
                    sv \in {start_values},
                    s1 \in {FadeWrite(s, target_values, start_values, 1, n_steps, 1)}} : TRUE

\* The next pass of the step loop of the fade task i.
fade_step(s, i) ==
    LET f == s.fades[i]
    IN  CHOOSE r \in
            {[s1 EXCEPT !.fades[i] = FadeTask(f.scene_id, f.bypass_active, f.targets,
                                              f.start_values, f.step + 1, f.steps)] :
               s1 \in {FadeWrite(s, f.targets, f.start_values, f.step + 1, f.steps, 1)}}
            : TRUE

RemoveAt(q, i) == [k \in 1..(Len(q) - 1) |-> IF k < i THEN q[k] ELSE q[k + 1]]

\* The fade task i returns from apply_fade; recall_scene goes on.
fade_finish(s, i, scenes) ==
    LET f == s.fades[i]
    IN  CHOOSE r \in
            {FinishRecall(s1, f.scene_id, scenes[f.scene_id], f.bypass_active) :
               s1 \in {[s EXCEPT !.fades = RemoveAt(@, i)]}} : TRUE

\* recall_scene up to its return or to the first sleep of its fade.
recall_scene(s, scene_id, scene) ==
    CHOOSE r \in
        {IF scene.transition_type = "instant" \/ scene.duration <= 0
         THEN CHOOSE r1 \in {FinishRecall(s1, scene_id, scene, bypass_active) :
                                s1 \in {ApplyInstant(s, filtered_values, 1)}} : TRUE
         ELSE IF scene.transition_type \in {"fade", "crossfade"}
         THEN apply_fade(s, scene_id, bypass_active, filtered_values, scene.duration)
         ELSE FinishRecall(s, scene_id, scene, bypass_active) :
           bypass_active \in {s.input_bypass_active},
           filtered_values \in {FilterTargets(s, BuildTargetValues(scene.values, 1, <<>>))}}
        : TRUE

\* _recall_scene_from_midi: set_channel for every scene value.
RECURSIVE recall_scene_from_midi(_, _, _)
recall_scene_from_midi(s, values, k) ==
    IF k > Len(values) THEN s
    ELSE CHOOSE r \in
             {recall_scene_from_midi(s1, values, k + 1) :
                s1 \in {set_channel(s, values[k].universe_id, values[k].channel,
                                    values[k].value, "midi_scene", FALSE)}} : TRUE

----------------------------------------------------------------------------
(* Startup configuration *)

ChannelMember(u, c, base_value) ==
    [target_type |-> "channel", universe_id |-> u, channel |-> c,
     base_value |-> base_value, target_universe_id |-> 0]

\* A member of a color_mixer group.
ColorMember(u, c, role) ==
    [target_type |-> "channel", universe_id |-> u, channel |-> c,
     base_value |-> 255, target_universe_id |-> 0, color_role |-> role]

\* Group 1: color_mixer, virtual master at full brightness, white
\* (add_group's default colour state); members red (1,1), green (1,2),
\* blue (1,3), white (1,5) and amber (2,1).
ColorGroups ==
    (1 :> [mode |-> "color_mixer", enabled |-> TRUE,
           master_universe |-> 0, master_channel |-> 0, master_value |-> 255,
           color_state |-> [h |-> 0, s |-> 0, l |-> 100],
           members |-> <<ColorMember(1, 1, "red"), ColorMember(1, 2, "green"),
                         ColorMember(1, 3, "blue"), ColorMember(1, 5, "white"),
                         ColorMember(2, 1, "amber")>>])

\* Group 1: proportional, virtual master, members (1,2) base 128 and (1,3).
\* Group 2: follow, physical master (1,1), member (1,2).
StartupGroups ==
    (1 :> [mode |-> "proportional", enabled |-> TRUE,
           master_universe |-> 0, master_channel |-> 0, master_value |-> 0,
           members |-> <<ChannelMember(1, 2, 128), ChannelMember(1, 3, 255)>>])
    @@
    (2 :> [mode |-> "follow", enabled |-> TRUE,
           master_universe |-> 1, master_channel |-> 1, master_value |-> 0,
           members |-> <<ChannelMember(1, 2, 255)>>])

NoInputConfig ==
    [passthrough_mode |-> "off", mode |-> "htp",
     channel_start |-> 1, channel_end |-> NumChannels]

\* Universe 1 has an input: HTP passthrough to faders and output on
\* channels 1..2.
StartupPassthrough ==
    [u \in Universes |->
        IF u = 1
        THEN [passthrough_mode |-> "faders_output", mode |-> "htp",
              channel_start |-> 1, channel_end |-> 2]
        ELSE NoInputConfig]

NoOp == [op |-> "init", universe_id |-> 0, channel |-> 0, value |-> 0,
         source |-> "", values |-> <<>>]

Op(name, u, c, v, source, values) ==
    [op |-> name, universe_id |-> u, channel |-> c, value |-> v,
     source |-> source, values |-> values]

\* Art-Net outputs of the model: all send to the same ip:port, so they
\* share one transport key.
NumOutputs == 3
Outputs == 1..NumOutputs
\* Number of ArtNetNode objects that may be created.
MaxNodes == 3

\* self._node_key = f"artnet:{ip}:{port}"
NodeKey(o) == "artnet:10.0.0.255:6454"

NoNode == 0

\* No output started, no shared node.
InitTransport ==
    /\ shared_nodes = <<>>
    /\ node_refs = <<>>
    /\ output_running = [o \in Outputs |-> FALSE]
    /\ output_node = [o \in Outputs |-> NoNode]
    /\ output_pc = [o \in Outputs |-> "idle"]
    /\ closed_nodes = {}
    /\ nodes_created = 0

\* No interface call is suspended inside the output's start() or stop().
NoCall == [op |-> "none", index |-> 0]

\* self.outputs = {} and self._output_configs = {}; connect() set _running.
InitOutputs ==
    /\ outputs = <<>>
    /\ output_configs = <<>>
    /\ output_calls = [o \in Outputs |-> NoCall]
    /\ outputs_created = 0
    /\ disconnect = [pc |-> "running", index |-> 0]

\* DMXInterface.__init__ followed by the startup loading of main.py:
\* universes with one output each, the input of universe 1, the groups.
InitMapped(pt_config, group_config, mappings, behavior) ==
    /\ channels = [u \in Universes |-> Zeros]
    /\ local_values = [u \in Universes |-> Zeros]
    /\ input_values = [u \in Universes |-> Zeros]
    /\ last_applied_input = [u \in Universes |-> Zeros]
    /\ passthrough_config = pt_config
    /\ inputs = {u \in Universes : pt_config[u].passthrough_mode # "off"}
    /\ blackout_active = FALSE
    /\ pre_blackout_values = <<>>
    /\ input_bypass_active = FALSE
    /\ global_grandmaster = 255
    /\ universe_grandmasters = [u \in Universes |-> 255]
    /\ groups = group_config
    /\ group_contributions = [k \in Universes \X Channels |-> <<>>]
    /\ last_group_values = [g \in DOMAIN group_config |-> NoValue]
    /\ parked_channels = [u \in Universes |-> <<>>]
    /\ highlight_active = FALSE
    /\ highlighted_channels = [u \in Universes |-> {}]
    /\ highlight_dim_level = 0
    /\ channel_sources = [u \in Universes |-> [c \in Channels |-> "unknown"]]
    /\ input_broadcast_age = [u \in Universes |-> BroadcastInterval]
    /\ group_broadcast_age = [g \in DOMAIN group_config |-> BroadcastInterval]
    /\ channel_map = BuildChannelMap(mappings)
    /\ unmapped_behavior = behavior
    /\ mapping_enabled = (Len(mappings) > 0)
    /\ active_scene_id = 0
    /\ fades = <<>>
    /\ InitTransport
    /\ InitOutputs
    /\ group_value_seen = [g \in DOMAIN group_config |-> NoValue]
    /\ events = <<>>
    /\ sent = <<>>
    /\ last_op = NoOp
    /\ steps = 0

\* Startup without a channel mapping configuration.
InitWith(pt_config, group_config) ==
    InitMapped(pt_config, group_config, <<>>, "passthrough")

Init == InitWith(StartupPassthrough, StartupGroups)

\* The facade goes to state r.
AssignFacade(result, op) ==
    /\ \E r \in {result} :
        /\ channels' = r.channels
        /\ local_values' = r.local_values
        /\ input_values' = r.input_values
        /\ last_applied_input' = r.last_applied_input
        /\ passthrough_config' = r.passthrough_config
        /\ inputs' = r.inputs
        /\ blackout_active' = r.blackout_active
        /\ pre_blackout_values' = r.pre_blackout_values
        /\ input_bypass_active' = r.input_bypass_active
        /\ global_grandmaster' = r.global_grandmaster
        /\ universe_grandmasters' = r.universe_grandmasters
        /\ groups' = r.groups
        /\ group_contributions' = r.group_contributions
        /\ last_group_values' = r.last_group_values
        /\ parked_channels' = r.parked_channels
        /\ highlight_active' = r.highlight_active
        /\ highlighted_channels' = r.highlighted_channels
        /\ highlight_dim_level' = r.highlight_dim_level
        /\ channel_sources' = r.channel_sources
        /\ input_broadcast_age' = r.input_broadcast_age
        /\ group_broadcast_age' = r.group_broadcast_age
        /\ channel_map' = r.channel_map
        /\ unmapped_behavior' = r.unmapped_behavior
        /\ mapping_enabled' = r.mapping_enabled
        /\ active_scene_id' = r.active_scene_id
        /\ fades' = r.fades
        /\ events' = r.events
        /\ sent' = r.sent
        /\ last_op' = op
        /\ UNCHANGED transport_vars
        /\ UNCHANGED interface_vars

\* The facade goes to state r; what the subscribers hold is not followed.
Assign(result, op) ==
    /\ AssignFacade(result, op)
    /\ UNCHANGED group_value_seen

\* The operation `op` took the facade to state r.
Apply(result, op) ==
    /\ Assign(result, op)
    /\ steps' = steps + 1

\* A suspended coroutine resumed and took the facade to state r.
Resume(result, op) ==
    /\ Assign(result, op)
    /\ steps' = steps

----------------------------------------------------------------------------
(* Operations *)

\* Callers of set_channel: the REST endpoint (api/dmx.py:56, values
\* validated, source "local"), the WebSocket handler (main.py:328, value
\* unchecked, input-controlled channels filtered unless bypass is on) and
\* the group API (api/groups.py:720, on a group's physical master).
SetChannel ==
    /\ steps < MaxSteps
    /\ \E t \in Targets, source \in {"local", "user_a", "group_api"} :
       \E v \in Values \cup {300} :
           /\ source = "local" => v \in Values
           /\ source = "user_a" =>
                 \/ input_bypass_active
                 \/ t[2] \notin get_input_controlled_channels(State, t[1])
           /\ source = "group_api" =>
                 /\ v \in Values
                 /\ MasterToGroups(State, t[1], t[2]) # {}
           /\ Apply(set_channel(State, t[1], t[2], v, source, FALSE),
                    Op("set_channel", t[1], t[2], v, source, <<>>))

\* Request dicts of set_channels: one channel, or two channels of universe 1.
Batches ==
    {<<1, <<<<t[2], v>>>> >> : t \in {x \in Targets : x[1] = 1}, v \in Values}
    \cup {<<2, <<<<1, v>>>> >> : v \in Values}
    \cup {<<1, <<<<3, v>>, <<5, w>>>> >> : v \in {150}, w \in {0, 200}}
    \cup {<<1, <<<<2, v>>, <<3, w>>>> >> : v \in {200}, w \in {150}}

SetChannels ==
    /\ steps < MaxSteps
    /\ \E b \in Batches, source \in {"local", "user_a"} :
           /\ source = "user_a" =>
                 \/ input_bypass_active
                 \/ \A k \in 1..Len(b[2]) :
                       b[2][k][1] \notin get_input_controlled_channels(State, b[1])
           /\ Apply(set_channels(State, b[1], b[2], source),
                    Op("set_channels", b[1], 0, 0, source, b[2]))

ParkChannel ==
    /\ steps < MaxSteps
    /\ \E t \in Targets, v \in ParkValues :
           Apply(park_channel(State, t[1], t[2], v),
                 Op("park_channel", t[1], t[2], v, "", <<>>))

UnparkChannel ==
    /\ steps < MaxSteps
    /\ \E t \in Targets :
           /\ IsChannelParked(State, t[1], t[2])
           /\ Apply(unpark_channel(State, t[1], t[2]),
                    Op("unpark_channel", t[1], t[2], 0, "", <<>>))

Blackout ==
    /\ steps < MaxSteps
    /\ Apply(blackout(State), Op("blackout", 0, 0, 0, "", <<>>))


ReleaseBlackout ==
    /\ steps < MaxSteps
    /\ blackout_active
    /\ Apply(release_blackout(State), Op("release_blackout", 0, 0, 0, "", <<>>))

SetGlobalGrandmaster ==
    /\ steps < MaxSteps
    /\ \E v \in GrandmasterValues :
           Apply(set_global_grandmaster(State, v),
                 Op("set_global_grandmaster", 0, 0, v, "", <<>>))

SetUniverseGrandmaster ==
    /\ steps < MaxSteps
    /\ \E u \in Universes, v \in GrandmasterValues :
           Apply(set_universe_grandmaster(State, u, v),
                 Op("set_universe_grandmaster", u, 0, v, "", <<>>))

StartHighlight ==
    /\ steps < MaxSteps
    /\ \E t \in Targets, d \in DimLevels :
           Apply(start_highlight(State, t[1], {t[2]}, d),
                 Op("start_highlight", t[1], t[2], d, "", <<>>))

StopHighlight ==
    /\ steps < MaxSteps
    /\ highlight_active
    /\ Apply(stop_highlight(State), Op("stop_highlight", 0, 0, 0, "", <<>>))

ApplyGroupDirect ==
    /\ steps < MaxSteps
    /\ \E g \in GroupIds, m \in MasterValues :
           Apply(apply_group_direct(State, g, m),
                 Op("apply_group_direct", 0, g, m, "", <<>>))

\* Frames delivered by the input of universe 1.
InputFrames ==
    {[i \in Channels |-> IF i = 1 THEN a ELSE IF i = 2 THEN b ELSE IF i = 5 THEN c ELSE 0] :
        a \in {0, 100, 200}, b \in {0, 100}, c \in {0, 77, 78}}

InputReceived ==
    /\ steps < MaxSteps
    /\ \E u \in inputs, f \in InputFrames :
           Apply(on_input_received(State, u, f),
                 Op("input", u, 0, 0, "", f))

SetInputBypass ==
    /\ steps < MaxSteps
    /\ \E bypass \in BOOLEAN :
           Apply(set_input_bypass(State, bypass),
                 Op("set_input_bypass", 0, 0, IF bypass THEN 1 ELSE 0, "", <<>>))

\* One tick of the monotonic clock passes between two operations.
Elapse(s) ==
    [s EXCEPT !.input_broadcast_age = [u \in DOMAIN @ |-> Min2(@[u] + 1, BroadcastInterval)],
              !.group_broadcast_age = [g \in DOMAIN @ |-> Min2(@[g] + 1, BroadcastInterval)]]

Tick ==
    /\ steps < MaxSteps
    /\ \E u \in Universes : input_broadcast_age[u] < BroadcastInterval
    /\ Apply(Elapse(State), Op("tick", 0, 0, 0, "", <<>>))

Next ==
    \/ SetChannel
    \/ SetChannels
    \/ ParkChannel
    \/ UnparkChannel
    \/ Blackout
    \/ ReleaseBlackout
    \/ SetGlobalGrandmaster
    \/ SetUniverseGrandmaster
    \/ StartHighlight
    \/ StopHighlight
    \/ ApplyGroupDirect
    \/ InputReceived
    \/ Tick

Spec == Init /\ [][Next]_vars

----------------------------------------------------------------------------
(* The input path on its own: passthrough configurations of universe 1,
   local writes, blackout, bypass and the clock *)

InputConfigs ==
    {[passthrough_mode |-> "faders_output", mode |-> "htp",
      channel_start |-> 1, channel_end |-> 2],
     [passthrough_mode |-> "output_only", mode |-> "htp",
      channel_start |-> 1, channel_end |-> NumChannels],
     [passthrough_mode |-> "faders_output", mode |-> "ltp",
      channel_start |-> 1, channel_end |-> NumChannels],
     [passthrough_mode |-> "view_only", mode |-> "htp",
      channel_start |-> 1, channel_end |-> NumChannels]}

InitInput ==
    \E config \in InputConfigs :
        InitWith([u \in Universes |-> IF u = 1 THEN config ELSE NoInputConfig],
                 StartupGroups)

NextInput ==
    \/ InputReceived
    \/ SetChannel
    \/ Blackout
    \/ ReleaseBlackout
    \/ SetInputBypass
    \/ Tick

SpecInput == InitInput /\ [][NextInput]_vars

\* set_passthrough(universe_id, mode=mode, passthrough_mode=passthrough_mode):
\* the configuration is replaced by a dict without channel_start and
\* channel_end, which every reader then takes as 1 and 512.
set_passthrough(s, u, mode, passthrough_mode) ==
    [s EXCEPT !.passthrough_config[u] =
        [passthrough_mode |-> passthrough_mode, mode |-> mode,
         channel_start |-> 1, channel_end |-> NumChannels]]

PassthroughModes == {"off", "view_only", "faders_output", "output_only"}

\* The passthrough settings of the universe with the input are updated
\* (api/io.py:516).
SetPassthrough ==
    /\ steps < MaxSteps
    /\ \E mode \in {"htp", "ltp"} : \E passthrough_mode \in PassthroughModes :
           Apply(set_passthrough(State, 1, mode, passthrough_mode),
                 Op("set_passthrough", 1, 0, 0, passthrough_mode, <<>>))

NextPassthrough ==
    \/ SetPassthrough
    \/ InputReceived
    \/ SetChannel

SpecPassthrough == InitInput /\ [][NextPassthrough]_vars

----------------------------------------------------------------------------
(* The input path with a channel mapping configuration: the active
   configuration is loaded at startup (main.py:165) or activated through
   the mapping API (api/mapping.py:114) *)

\* Mapping configurations: the entries and the unmapped policy.
MappingConfigs ==
    {[mappings |-> <<>>, unmapped_behavior |-> "passthrough"],
     [mappings |-> <<Mapping(1, 1, ChannelTarget(1, 3))>>,
      unmapped_behavior |-> "passthrough"],
     [mappings |-> <<Mapping(1, 1, ChannelTarget(2, 1)),
                     Mapping(1, 1, ChannelTarget(1, 3)),
                     Mapping(1, 2, ChannelTarget(1, 3))>>,
      unmapped_behavior |-> "passthrough"],
     [mappings |-> <<Mapping(1, 2, GlobalMasterTarget),
                     Mapping(1, 5, UniverseMasterTarget(2)),
                     Mapping(1, 1, ChannelTarget(1, 2))>>,
      unmapped_behavior |-> "ignore"],
     [mappings |-> <<Mapping(2, 1, ChannelTarget(1, 5))>>,
      unmapped_behavior |-> "passthrough"]}

MappedConfigs ==
    {[passthrough_mode |-> "faders_output", mode |-> "htp",
      channel_start |-> 1, channel_end |-> NumChannels],
     [passthrough_mode |-> "faders_output", mode |-> "ltp",
      channel_start |-> 1, channel_end |-> NumChannels]}

InitMappedInput ==
    \E config \in MappedConfigs, m \in MappingConfigs :
        InitMapped([u \in Universes |-> IF u = 1 THEN config ELSE NoInputConfig],
                   StartupGroups, m.mappings, m.unmapped_behavior)

SetChannelMapping ==
    /\ steps < MaxSteps
    /\ \E m \in MappingConfigs :
           Apply(set_channel_mapping(State, m.mappings, m.unmapped_behavior),
                 Op("set_channel_mapping", 0, 0, Len(m.mappings),
                    m.unmapped_behavior, <<>>))

NextMapped ==
    \/ InputReceived
    \/ SetChannel
    \/ SetChannelMapping
    \/ Tick

SpecMapped == InitMappedInput /\ [][NextMapped]_vars

----------------------------------------------------------------------------
(* Scene recall: the REST endpoint (api/scenes.py:509), the MIDI note
   trigger (main.py:252) and the fade coroutines between their sleeps *)

\* Number of recalls that may be fading at the same time.
MaxFades == 2
\* Duration of the fading scenes in milliseconds: three fade steps.
FadeDuration == 100

\* The scenes of the database.
\* 1: instant, with a group master (input-linked at startup) and its member,
\*    a member of the virtual group 1, group values and the global grandmaster.
\* 2: instant, plain channels and a universe grandmaster.
\* 3: fade up, with a group value.   4: fade down.   5: crossfade.
StartupScenes ==
    <<[values |-> <<SceneValue(1, 1, 200), SceneValue(1, 3, 150),
                    SceneValue(1, 5, 200), SceneValue(2, 1, 150)>>,
       group_values |-> <<SceneGroupValue(1, 128), SceneGroupValue(2, 150)>>,
       master_values |-> <<SceneMasterValue("global", 0, 128)>>,
       transition_type |-> "instant", duration |-> 0],
      [values |-> <<SceneValue(1, 5, 150), SceneValue(2, 1, 200)>>,
       group_values |-> <<>>,
       master_values |-> <<SceneMasterValue("universe", 2, 128)>>,
       transition_type |-> "instant", duration |-> 0],
      [values |-> <<SceneValue(1, 1, 150), SceneValue(1, 5, 200),
                    SceneValue(2, 1, 150)>>,
       group_values |-> <<SceneGroupValue(1, 255)>>,
       master_values |-> <<>>,
       transition_type |-> "fade", duration |-> FadeDuration],
      [values |-> <<SceneValue(1, 5, 0), SceneValue(2, 1, 0)>>,
       group_values |-> <<>>,
       master_values |-> <<>>,
       transition_type |-> "fade", duration |-> FadeDuration],
      [values |-> <<SceneValue(1, 5, 150)>>,
       group_values |-> <<>>,
       master_values |-> <<>>,
       transition_type |-> "crossfade", duration |-> FadeDuration]>>

SceneIds == DOMAIN StartupScenes

\* Startup with the direct input of universe 1, or with a mapped input
\* whose destinations lie in both universes.
InitScene ==
    \/ Init
    \/ InitMapped([u \in Universes |->
                      IF u = 1
                      THEN [passthrough_mode |-> "faders_output", mode |-> "htp",
                            channel_start |-> 1, channel_end |-> NumChannels]
                      ELSE NoInputConfig],
                  StartupGroups,
                  <<Mapping(1, 1, ChannelTarget(2, 1)),
                    Mapping(1, 2, ChannelTarget(1, 3))>>,
                  "ignore")

IsInstant(scene) == scene.transition_type = "instant" \/ scene.duration <= 0

RecallScene ==
    /\ steps < MaxSteps
    /\ \E id \in SceneIds :
           /\ ~IsInstant(StartupScenes[id]) => Len(fades) < MaxFades
           /\ Apply(recall_scene(State, id, StartupScenes[id]),
                    Op("recall_scene", 0, 0, id, StartupScenes[id].transition_type, <<>>))

RecallSceneFromMidi ==
    /\ steps < MaxSteps
    /\ \E id \in SceneIds :
           Apply(recall_scene_from_midi(State, StartupScenes[id].values, 1),
                 Op("recall_scene_from_midi", 0, 0, id, "midi_scene", <<>>))

\* A fade wakes from its sleep and writes its next step.
FadeStep ==
    \E i \in DOMAIN fades :
        /\ fades[i].step < fades[i].steps
        /\ Resume(fade_step(State, i),
                  Op("fade_step", 0, 0, fades[i].scene_id, "", <<>>))

\* A fade wakes from the sleep of its last step and the recall completes.
FadeFinish ==
    \E i \in DOMAIN fades :
        /\ fades[i].step = fades[i].steps
        /\ Resume(fade_finish(State, i, StartupScenes),
                  Op("fade_finish", 0, 0, fades[i].scene_id, "", <<>>))

NextScene ==
    \/ RecallScene
    \/ RecallSceneFromMidi
    \/ FadeStep
    \/ FadeFinish
    \/ SetChannel

SpecScene == InitScene /\ [][NextScene]_vars

\* Fades with parked slots and under blackout, no other writer.
NextFade ==
    \/ RecallScene
    \/ FadeStep
    \/ FadeFinish
    \/ ParkChannel
    \/ Blackout

SpecFade == InitScene /\ [][NextFade]_vars

----------------------------------------------------------------------------
(* Art-Net outputs sharing a transport: dmx_outputs.py.  start() and stop()
   are coroutines; they suspend at `await self._node.__aenter__()` and at
   `await self._node.__aexit__(...)`, where other coroutines may run. *)

\* dict without the key
DropKey(d, key) == [k \in DOMAIN d \ {key} |-> d[k]]

\* start() up to its return or to the await of __aenter__.
StartBegin(o) ==
    /\ output_pc[o] = "idle"
    /\ ~output_running[o]
    /\ LET key == NodeKey(o)
       IN  IF key \in DOMAIN shared_nodes
           THEN /\ output_node' = [output_node EXCEPT ![o] = shared_nodes[key]]
                /\ node_refs' = [node_refs EXCEPT ![key] = @ + 1]
                /\ output_running' = [output_running EXCEPT ![o] = TRUE]
                /\ UNCHANGED <<shared_nodes, output_pc, closed_nodes, nodes_created>>
           ELSE /\ nodes_created < MaxNodes
                /\ nodes_created' = nodes_created + 1
                /\ output_node' = [output_node EXCEPT ![o] = nodes_created + 1]
                /\ output_pc' = [output_pc EXCEPT ![o] = "aenter"]
                /\ UNCHANGED <<shared_nodes, node_refs, output_running, closed_nodes>>

\* start() resumes after __aenter__: the node is registered with one reference.
StartResume(o) ==
    /\ output_pc[o] = "aenter"
    /\ LET key == NodeKey(o)
       IN  /\ shared_nodes' = (key :> output_node[o]) @@ shared_nodes
           /\ node_refs' = (key :> 1) @@ node_refs
    /\ output_running' = [output_running EXCEPT ![o] = TRUE]
    /\ output_pc' = [output_pc EXCEPT ![o] = "idle"]
    /\ UNCHANGED <<output_node, closed_nodes, nodes_created>>

\* stop() up to its return or to the await of __aexit__.
StopBegin(o) ==
    /\ output_pc[o] = "idle"
    /\ output_running[o]
    /\ LET key == NodeKey(o)
       IN  IF key \in DOMAIN node_refs
           THEN /\ node_refs' = [node_refs EXCEPT ![key] = @ - 1]
                /\ IF node_refs[key] - 1 <= 0 /\ output_node[o] # NoNode
                   THEN /\ output_pc' = [output_pc EXCEPT ![o] = "aexit"]
                        /\ UNCHANGED <<output_running, output_node>>
                   ELSE /\ output_running' = [output_running EXCEPT ![o] = FALSE]
                        /\ output_node' = [output_node EXCEPT ![o] = NoNode]
                        /\ UNCHANGED output_pc
           ELSE /\ output_running' = [output_running EXCEPT ![o] = FALSE]
                /\ output_node' = [output_node EXCEPT ![o] = NoNode]
                /\ UNCHANGED <<node_refs, output_pc>>
    /\ UNCHANGED <<shared_nodes, closed_nodes, nodes_created>>

\* stop() resumes after __aexit__ closed the node's socket: the key is
\* deleted from both dicts; a missing key raises KeyError, which the except
\* clause logs, leaving _running and _node as they were.
StopResume(o) ==
    /\ output_pc[o] = "aexit"
    /\ closed_nodes' = closed_nodes \cup {output_node[o]}
    /\ output_pc' = [output_pc EXCEPT ![o] = "idle"]
    /\ LET key == NodeKey(o)
       IN  IF key \in DOMAIN shared_nodes /\ key \in DOMAIN node_refs
           THEN /\ shared_nodes' = DropKey(shared_nodes, key)
                /\ node_refs' = DropKey(node_refs, key)
                /\ output_running' = [output_running EXCEPT ![o] = FALSE]
                /\ output_node' = [output_node EXCEPT ![o] = NoNode]
           ELSE /\ shared_nodes' = DropKey(shared_nodes, key)
                /\ UNCHANGED <<node_refs, output_running, output_node>>
    /\ UNCHANGED nodes_created

\* start() and stop() called on an output directly.
OutputStart(o) == StartBegin(o) /\ UNCHANGED facade_vars

OutputStartResume(o) == StartResume(o) /\ UNCHANGED facade_vars

OutputStop(o) == StopBegin(o) /\ UNCHANGED facade_vars

OutputStopResume(o) == StopResume(o) /\ UNCHANGED facade_vars

NextTransport ==
    \E o \in Outputs :
        \/ OutputStart(o)
        \/ OutputStartResume(o)
        \/ OutputStop(o)
        \/ OutputStopResume(o)

SpecTransport == Init /\ [][NextTransport]_vars

----------------------------------------------------------------------------
(* The output lists of one universe: dmx_interface.py.  add_output,
   remove_output and disconnect are coroutines; they suspend only where the
   start() or stop() they await suspends. *)

\* self.outputs[u].append(output); self._output_configs[u].append(config)
Appended(o) ==
    /\ outputs' = Append(outputs, o)
    /\ output_configs' = Append(output_configs, o)

\* self.outputs[u].pop(i); self._output_configs[u].pop(i).  An index past
\* the end raises IndexError out of remove_output before either list changed.
Popped(i) ==
    IF i <= Len(outputs)
    THEN /\ outputs' = RemoveAt(outputs, i)
         /\ output_configs' = RemoveAt(output_configs, i)
    ELSE UNCHANGED <<outputs, output_configs>>

\* add_output(universe, "artnet", config, output_id, enabled) up to its
\* return or to the await inside output.start().
AddOutput(enabled) ==
    /\ disconnect.pc = "running"
    /\ outputs_created < NumOutputs
    /\ LET o == outputs_created + 1
       IN  /\ outputs_created' = o
           /\ IF ~enabled
              THEN /\ Appended(o)
                   /\ UNCHANGED transport_vars
                   /\ UNCHANGED output_calls
              ELSE /\ StartBegin(o)
                   /\ IF output_pc'[o] = "aenter"
                      THEN /\ output_calls' = [output_calls EXCEPT ![o] =
                                                  [op |-> "add", index |-> 0]]
                           /\ UNCHANGED <<outputs, output_configs>>
                      ELSE /\ Appended(o)
                           /\ UNCHANGED output_calls
    /\ UNCHANGED <<engine_vars, input_values, inputs, disconnect>>

\* add_output resumes when start() returns and stores the output.
AddOutputResume(o) ==
    /\ output_calls[o].op = "add"
    /\ StartResume(o)
    /\ Appended(o)
    /\ output_calls' = [output_calls EXCEPT ![o] = NoCall]
    /\ UNCHANGED <<engine_vars, input_values, inputs, outputs_created, disconnect>>

\* remove_output(universe, output_id) up to its return or to the await
\* inside output.stop(); i is the index of the first config with that id.
RemoveOutput(output_id) ==
    /\ disconnect.pc = "running"
    /\ \E i \in DOMAIN output_configs :
        /\ output_configs[i] = output_id
        /\ \A j \in 1..(i - 1) : output_configs[j] # output_id
        /\ LET output == outputs[i]
           IN  IF output_running[output]
               THEN /\ StopBegin(output)
                    /\ IF output_pc'[output] = "aexit"
                       THEN /\ output_calls' = [output_calls EXCEPT ![output] =
                                                   [op |-> "remove", index |-> i]]
                            /\ UNCHANGED <<outputs, output_configs>>
                       ELSE /\ Popped(i)
                            /\ UNCHANGED output_calls
               ELSE /\ Popped(i)
                    /\ UNCHANGED transport_vars
                    /\ UNCHANGED output_calls
    /\ UNCHANGED <<engine_vars, input_values, inputs, outputs_created, disconnect>>

\* remove_output resumes when stop() returns and pops index i of both lists.
RemoveOutputResume(o) ==
    /\ output_calls[o].op = "remove"
    /\ StopResume(o)
    /\ Popped(output_calls[o].index)
    /\ output_calls' = [output_calls EXCEPT ![o] = NoCall]
    /\ UNCHANGED <<engine_vars, input_values, inputs, outputs_created, disconnect>>

\* disconnect() is called by the shutdown of main.py, when no request is in
\* flight: _running = False, up to the await of the first remove_input.
DisconnectBegin ==
    /\ disconnect.pc = "running"
    /\ \A o \in Outputs : output_pc[o] = "idle"
    /\ disconnect' = [pc |-> "inputs", index |-> 0]
    /\ UNCHANGED <<engine_vars, input_values, inputs, outputs, output_configs,
                   output_calls, outputs_created>>
    /\ UNCHANGED transport_vars

\* remove_input(universe_id) of the first loop: the input is stopped and
\* deleted with its last frame.
DisconnectInput ==
    /\ disconnect.pc = "inputs"
    /\ inputs # {}
    /\ LET universe_id == CHOOSE u \in inputs : \A v \in inputs : u <= v
       IN  /\ inputs' = inputs \ {universe_id}
           /\ input_values' = [input_values EXCEPT ![universe_id] = Zeros]
    /\ UNCHANGED <<engine_vars, interface_vars>>
    /\ UNCHANGED transport_vars

\* The first loop is over; remove_all_outputs looks at the next output, up
\* to the await inside its stop(); after the last output both lists are
\* deleted and disconnect() returns.
DisconnectOutput ==
    /\ disconnect.pc \in {"inputs", "outputs"}
    /\ inputs = {}
    /\ \A o \in Outputs : output_calls[o].op # "remove_all"
    /\ LET i == IF disconnect.pc = "inputs" THEN 1 ELSE disconnect.index
       IN  IF i > Len(outputs)
           THEN /\ disconnect' = [pc |-> "done", index |-> 0]
                /\ outputs' = <<>>
                /\ output_configs' = <<>>
                /\ UNCHANGED transport_vars
                /\ UNCHANGED output_calls
           ELSE LET output == outputs[i]
                IN  /\ UNCHANGED <<outputs, output_configs>>
                    /\ IF output_running[output]
                       THEN /\ StopBegin(output)
                            /\ IF output_pc'[output] = "aexit"
                               THEN output_calls' = [output_calls EXCEPT ![output] =
                                                        [op |-> "remove_all", index |-> i]]
                               ELSE UNCHANGED output_calls
                       ELSE /\ UNCHANGED transport_vars
                            /\ UNCHANGED output_calls
                    /\ disconnect' = [pc |-> "outputs",
                                      index |-> IF output_calls'[output].op = "remove_all"
                                                THEN i ELSE i + 1]
    /\ UNCHANGED <<engine_vars, input_values, inputs, outputs_created>>

\* remove_all_outputs resumes when the stop() it awaits returns.
DisconnectOutputResume(o) ==
    /\ output_calls[o].op = "remove_all"
    /\ StopResume(o)
    /\ output_calls' = [output_calls EXCEPT ![o] = NoCall]
    /\ disconnect' = [disconnect EXCEPT !.index = @ + 1]
    /\ UNCHANGED <<engine_vars, input_values, inputs, outputs, output_configs,
                   outputs_created>>

NextOutputs ==
    \/ \E enabled \in BOOLEAN : AddOutput(enabled)
    \/ \E o \in Outputs : AddOutputResume(o)
    \/ \E output_id \in Outputs : RemoveOutput(output_id)
    \/ \E o \in Outputs : RemoveOutputResume(o)
    \/ DisconnectBegin
    \/ DisconnectInput
    \/ DisconnectOutput
    \/ \E o \in Outputs : DisconnectOutputResume(o)

SpecOutputs == Init /\ [][NextOutputs]_vars

----------------------------------------------------------------------------
(* Removing groups and members: remove_group and clear_group_contribution,
   called by the group API (api/groups.py:399, 536) *)

\* Variant: the slot reverts to zero whatever remains.
RemainingHTP_Zero(contribs) == 0

\* htp_value of a slot after a contribution was deleted.
RemainingHTP(contribs) ==
    IF DOMAIN contribs # {} THEN SetMax(ContributionValues(contribs)) ELSE 0

\* The slots group_id contributes to.
ContributedSlots(s, group_id) ==
    {k \in Universes \X Channels : group_id \in DOMAIN s.group_contributions[k]}

\* del self._group_contributions[ch_key][group_id]; universe.set_channel
ClearContribution(s, group_id, ch_key) ==
    LET remaining == DropKey(s.group_contributions[ch_key], group_id)
    IN  [s EXCEPT !.group_contributions[ch_key] = remaining,
                  !.channels[ch_key[1]] =
                      UniverseSetChannel(@, ch_key[2], RemainingHTP(remaining))]

RECURSIVE ClearContributions(_, _, _)
ClearContributions(s, group_id, keys) ==
    IF keys = {} THEN s
    ELSE LET k == CHOOSE x \in keys : TRUE
         IN  ClearContributions(ClearContribution(s, group_id, k), group_id, keys \ {k})

remove_group(s, group_id) ==
    IF group_id \notin DOMAIN s.groups THEN s
    ELSE LET keys == ContributedSlots(s, group_id)
             s1 == [s EXCEPT !.groups = DropKey(@, group_id)]
             s2 == ClearContributions(s1, group_id, keys)
         IN  SendUniverses(s2, {k[1] : k \in keys})

clear_group_contribution(s, group_id, universe_id, channel) ==
    LET ch_key == <<universe_id, channel>>
    IN  IF group_id \in DOMAIN s.group_contributions[ch_key]
        THEN SendUniverse(ClearContribution(s, group_id, ch_key), universe_id)
        ELSE s

\* update_group with the configuration the API reloads after it deleted
\* member k of the group from the database.
update_group_without_member(s, group_id, k) ==
    [s EXCEPT !.groups[group_id].members =
                  [i \in 1..(Len(@) - 1) |-> IF i < k THEN @[i] ELSE @[i + 1]]]

\* DELETE /api/groups/{group_id}/members/{member_id}
remove_member(s, group_id, k) ==
    LET member == s.groups[group_id].members[k]
        s1 == IF member.target_type = "channel"
              THEN clear_group_contribution(s, group_id, member.universe_id, member.channel)
              ELSE s
    IN  update_group_without_member(s1, group_id, k)

RemoveGroup ==
    /\ steps < MaxSteps
    /\ \E g \in DOMAIN groups :
           Apply(remove_group(State, g), Op("remove_group", 0, g, 0, "", <<>>))

RemoveMember ==
    /\ steps < MaxSteps
    /\ \E g \in DOMAIN groups :
       \E k \in DOMAIN groups[g].members :
           Apply(remove_member(State, g, k),
                 Op("remove_member", groups[g].members[k].universe_id, g, k, "",
                    <<groups[g].members[k].channel>>))

NextGroups ==
    \/ SetChannel
    \/ ApplyGroupDirect
    \/ RemoveGroup
    \/ RemoveMember

SpecGroups == Init /\ [][NextGroups]_vars

----------------------------------------------------------------------------
(* Color mixer groups: the colour and brightness endpoints of the group
   API (api/groups.py:776, 723) *)

\* Colour states (h, s, l) set by clients: red, dark red, orange, white,
\* grey, blue.
ColorStates ==
    {<<0, 100, 50>>, <<0, 100, 25>>, <<30, 100, 50>>, <<0, 0, 100>>,
     <<0, 0, 50>>, <<240, 100, 50>>}

\* Brightness values (the group's master value) set by clients.
Brightness == {0, 128, 200, 255}

InitColor == InitWith([u \in Universes |-> NoInputConfig], ColorGroups)

SetGroupColor ==
    /\ steps < MaxSteps
    /\ \E g \in DOMAIN groups, hsl \in ColorStates :
           Apply(set_group_color(State, g, hsl[1], hsl[2], hsl[3]),
                 Op("set_group_color", 0, g, 0, "", hsl))

SetGroupBrightness ==
    /\ steps < MaxSteps
    /\ \E g \in DOMAIN groups, m \in Brightness :
           Apply(apply_group_direct(State, g, m),
                 Op("apply_group_direct", 0, g, m, "", <<>>))

NextColor ==
    \/ SetGroupColor
    \/ SetGroupBrightness
    \/ ParkChannel
    \/ UnparkChannel

SpecColor == InitColor /\ [][NextColor]_vars

----------------------------------------------------------------------------
(* User writes to the members of an input-driven group: the REST and
   WebSocket writes with the input of universe 1 running *)

\* Group 1: proportional, virtual master, member (1,5).
\* Group 2: follow, physical master (1,1) inside the input range 1..2,
\* members (1,3) and (2,1) outside it.
InputMasterGroups ==
    (1 :> [mode |-> "proportional", enabled |-> TRUE,
           master_universe |-> 0, master_channel |-> 0, master_value |-> 0,
           members |-> <<ChannelMember(1, 5, 128)>>])
    @@
    (2 :> [mode |-> "follow", enabled |-> TRUE,
           master_universe |-> 1, master_channel |-> 1, master_value |-> 0,
           members |-> <<ChannelMember(1, 3, 255), ChannelMember(2, 1, 255)>>])

InitInputMaster == InitWith(StartupPassthrough, InputMasterGroups)

NextInputMaster ==
    \/ SetChannel
    \/ SetChannels
    \/ InputReceived
    \/ Tick

SpecInputMaster == InitInputMaster /\ [][NextInputMaster]_vars

----------------------------------------------------------------------------
(* The input-driven group master as the subscribers see it, with no bound
   on the number of frames: websocket_manager delivers every
   group_value_changed broadcast, and a client keeps the last one. *)

\* The values held by the subscribers after the events of one operation.
RECURSIVE Deliver(_, _, _)
Deliver(seen, evs, k) ==
    IF k > Len(evs) THEN seen
    ELSE IF evs[k].type = "group_value_changed" /\ evs[k].channel \in DOMAIN seen
    THEN Deliver([seen EXCEPT ![evs[k].channel] = evs[k].value], evs, k + 1)
    ELSE Deliver(seen, evs, k + 1)

\* Levels of the master channel sent by the console.
MasterLevels == {0, 100, 200}

\* A frame of the input of universe 1 arrives.
InputArrives ==
    \E level \in MasterLevels :
        \E r \in {on_input_received(State, 1, [i \in Channels |-> IF i = 1 THEN level ELSE 0])} :
            /\ AssignFacade(r, Op("input", 1, 0, level, "", <<>>))
            /\ group_value_seen' = Deliver(group_value_seen, r.events, 1)
            /\ steps' = steps

\* One tick of the monotonic clock passes.
TimePasses ==
    /\ \E g \in DOMAIN group_broadcast_age : group_broadcast_age[g] < BroadcastInterval
    /\ AssignFacade(Elapse(State), Op("tick", 0, 0, 0, "", <<>>))
    /\ UNCHANGED group_value_seen
    /\ steps' = steps

\* A fader is moved by hand between two frames.
FaderMoves ==
    /\ \E c \in {3, 5} : \E v \in {0, 150} :
           AssignFacade(set_channel(State, 1, c, v, "local", FALSE),
                        Op("set_channel", 1, c, v, "local", <<>>))
    /\ UNCHANGED group_value_seen
    /\ steps' = steps

NextThrottle ==
    \/ InputArrives
    \/ TimePasses
    \/ FaderMoves

\* The clock never stops: time.time() advances whatever the event loop does.
SpecThrottle ==
    /\ InitInputMaster
    /\ [][NextThrottle]_vars
    /\ WF_vars(TimePasses)

----------------------------------------------------------------------------
(* Properties of the emit path *)

Frames == {sent[k] : k \in 1..Len(sent)}

\* y is the integer nearest to n / d (no tie).
IsRounded(y, n, d) == 2 * Abs(n - d * y) < d

\* C1: while blackout is active every wire frame handed to an output is all
\* zeros, whatever else has been done (park, highlight, group writes, ...).
C1_BlackoutDominance ==
    \A f \in Frames : f.blackout => f.frame = Zeros

\* C2: while blackout is inactive, slot c of every wire frame of universe u
\* equals round(L * universe_gm * global_gm / 65025) for every parked
\* (u, c) -> L.
C2_ParkDominance ==
    \A f \in Frames :
        ~f.blackout =>
            \A c \in DOMAIN f.parked :
                IsRounded(f.frame[c], f.parked[c] * f.universe_gm * f.global_gm, 65025)

\* A parked, highlighted slot is emitted at the scaled park value (51 at
\* global grandmaster 128 gives 26), not at the highlight level.
C2_Witness ==
    \E f \in Frames :
        /\ ~f.blackout /\ f.highlight /\ f.global_gm = 128 /\ f.universe_gm = 255
        /\ \E c \in DOMAIN f.parked :
              c \in f.highlighted /\ f.parked[c] = 51 /\ f.frame[c] = 26

\* C3: every emitted wire frame has the full frame length and every slot
\* is an integer in 0..255.
C3_RangeSafety ==
    \A f \in Frames :
        /\ Len(f.frame) = NumChannels
        /\ \A c \in 1..Len(f.frame) : f.frame[c] \in 0..255

\* A frame emitted by a write of the out-of-range value 300.
C3_Witness ==
    /\ last_op.op = "set_channel" /\ last_op.value = 300
    /\ \E f \in Frames : f.universe = last_op.universe_id

\* C7: while highlight is active, the slot before park and grandmaster is
\* 255 for a highlighted channel and dim_level for every other channel.
C7_HighlightReplacement ==
    \A f \in Frames :
        f.highlight =>
            \A c \in Channels \ DOMAIN f.parked :
                f.composed[c] = IF c \in f.highlighted THEN 255 ELSE f.dim_level

\* Highlight replaces the buffer: a slot holding 200 is emitted at the dim
\* level 31 and a highlighted slot holding 0 at 255.
C7_Witness ==
    \E f \in Frames :
        /\ f.highlight /\ f.dim_level = 31 /\ f.parked = <<>>
        /\ \E c \in f.highlighted : f.buffer[c] = 0 /\ f.composed[c] = 255
        /\ \E c \in Channels \ f.highlighted : f.buffer[c] = 200 /\ f.composed[c] = 31

\* C8: with both grandmasters at 255 the wire frame is the composed frame;
\* with the global grandmaster at g (universe grandmaster 255) every wire
\* slot is round(composed * g / 255); scenario S1: from startup,
\* set_global_grandmaster(128) then set_channel(1, 5, 200) emits ch5 = 100
\* and every other channel 0.
C8_GrandmasterLinearity ==
    /\ \A f \in Frames :
          /\ (f.universe_gm = 255 /\ f.global_gm = 255) => f.frame = f.composed
          /\ f.universe_gm = 255 =>
                \A c \in Channels : IsRounded(f.frame[c], f.composed[c] * f.global_gm, 255)
    /\ ( /\ steps = 2 /\ global_grandmaster = 128
         /\ last_op.op = "set_channel" /\ last_op.universe_id = 1
         /\ last_op.channel = 5 /\ last_op.value = 200 )
       => /\ Len(sent) = 1
          /\ sent[1].universe = 1
          /\ sent[1].frame = [c \in Channels |-> IF c = 5 THEN 100 ELSE 0]

\* Scenario S1 has run.
C8_Witness ==
    /\ steps = 2 /\ global_grandmaster = 128
    /\ last_op.op = "set_channel" /\ last_op.universe_id = 1
    /\ last_op.channel = 5 /\ last_op.value = 200
    /\ Len(sent) = 1 /\ sent[1].frame[5] = 100

----------------------------------------------------------------------------
(* Properties of the write side *)

RejectEvents(s) ==
    SelectSeq(s.events, LAMBDA e : e.source \in {"park_reject", "group_reject"})

MasterValuesOf(s) == [g \in DOMAIN s.groups |-> s.groups[g].master_value]

\* C4: from any facade state a user-sourced set_channel(u, c, v) and
\* set_channels(u, {c: v}) emit the same reject events and leave the same
\* output, local, group-master and pre-blackout state.
C4_UniformWrites ==
    \A t \in Targets, v \in Values :
        LET single == set_channel(State, t[1], t[2], v, "user_a", FALSE)
            batch == set_channels(State, t[1], <<<<t[2], v>>>>, "user_a")
        IN  /\ RejectEvents(single) = RejectEvents(batch)
            /\ single.channels = batch.channels
            /\ single.local_values = batch.local_values
            /\ MasterValuesOf(single) = MasterValuesOf(batch)
            /\ single.pre_blackout_values = batch.pre_blackout_values

ParkRejects(u, c) ==
    \E k \in 1..Len(events) :
        /\ events[k].source = "park_reject"
        /\ events[k].universe_id = u /\ events[k].channel = c
        /\ events[k].value = parked_channels[u][c]

\* C5: every write to a parked channel, through set_channel or
\* set_channels and in every facade state, produces a park_reject event
\* carrying the parked value.
C5_ParkRejectAlways ==
    /\ ( /\ last_op.op = "set_channel"
         /\ IsChannelParked(State, last_op.universe_id, last_op.channel) )
       => ParkRejects(last_op.universe_id, last_op.channel)
    /\ last_op.op = "set_channels" =>
          \A k \in 1..Len(last_op.values) :
              IsChannelParked(State, last_op.universe_id, last_op.values[k][1])
                  => ParkRejects(last_op.universe_id, last_op.values[k][1])

\* C6: set_channel(u, c, v) with v outside 0..255 produces the same output
\* buffer, local values and emitted frames as set_channel(u, c, clamp(v)).
C6_ClampIdempotence ==
    \A t \in Targets, v \in OutOfRangeValues, source \in {"local", "user_a"} :
        LET raw == set_channel(State, t[1], t[2], v, source, FALSE)
            clamped == set_channel(State, t[1], t[2], Clamp(v), source, FALSE)
        IN  /\ raw.channels = clamped.channels
            /\ raw.local_values = clamped.local_values
            /\ [k \in 1..Len(raw.sent) |-> raw.sent[k].frame]
                 = [k \in 1..Len(clamped.sent) |-> clamped.sent[k].frame]

----------------------------------------------------------------------------
(* Properties of the group engine and of the input path *)

IsChannelMemberOf(s, g, u, c) ==
    \E k \in 1..Len(s.groups[g].members) :
        LET member == s.groups[g].members[k]
        IN  member.target_type = "channel" /\ member.universe_id = u /\ member.channel = c

HTPHolds(chans, contributions, u, c) ==
    chans[u][c] = SetMax(ContributionValues(contributions[<<u, c>>]))

GroupDrivenSlot(u, i) ==
    \E g \in DOMAIN groups :
        /\ groups[g].enabled /\ HasPhysicalMaster(groups[g])
        /\ groups[g].master_universe = u
        /\ groups[g].master_channel \in InputRange(passthrough_config[u])
        /\ IsChannelMemberOf(State, g, u, i)

HTPDirect(u) ==
    /\ u \in inputs
    /\ passthrough_config[u].mode = "htp"
    /\ PassthroughToOutput(passthrough_config[u])

\* C10 as stated: in HTP direct passthrough, after an input frame is
\* processed, output[i] = max(local[i], input[i]) for every i in the range.
C10_Original ==
    \A u \in Universes, f \in InputFrames :
        HTPDirect(u) =>
            \A i \in InputRange(passthrough_config[u]) :
                on_input_received(State, u, f).channels[u][i]
                    = Max2(local_values[u][i], f[i])

\* C10: in HTP direct passthrough with blackout and input bypass off, after
\* an input frame is processed output[i] = min(255, max(local[i], input[i]))
\* (local as it was before the frame) for every i in the input's range that
\* is not a member slot of a group whose physical master is in the range.
C10_HTPPassthrough ==
    \A u \in Universes, f \in InputFrames :
        (HTPDirect(u) /\ ~blackout_active /\ ~input_bypass_active) =>
            \A i \in InputRange(passthrough_config[u]) :
                ~GroupDrivenSlot(u, i) =>
                    on_input_received(State, u, f).channels[u][i]
                        = Min2(255, Max2(local_values[u][i], f[i]))

\* Range 1..NumChannels, local ch1 = 150, input ch1 = 200: the output and
\* the wire carry 200.
C10_Witness ==
    /\ last_op.op = "input" /\ last_op.universe_id = 1 /\ last_op.values[1] = 200
    /\ HTPDirect(1) /\ passthrough_config[1].channel_end = NumChannels
    /\ ~blackout_active /\ ~input_bypass_active
    /\ local_values[1][1] = 150
    /\ channels[1][1] = 200
    /\ \E f \in Frames : f.universe = 1 /\ f.frame[1] = 200

\* The input of universe u passes straight through to the output (no
\* channel mapping).
DirectPassthrough(u) ==
    u \in inputs /\ ~mapping_enabled /\ PassthroughToOutput(passthrough_config[u])

\* C11: processing a direct-passthrough input frame (HTP or LTP) leaves
\* every output slot outside the input's channel range at the value it had
\* before the frame, including slots last written by a group.
C11_OutsideRangeUntouched ==
    \A u \in Universes, f \in InputFrames :
        DirectPassthrough(u) =>
            \A i \in Channels \ InputRange(passthrough_config[u]) :
                on_input_received(State, u, f).channels[u][i] = channels[u][i]

LTPDirect(u) == DirectPassthrough(u) /\ passthrough_config[u].mode = "ltp"

\* The input of universe u reaches the output, directly or through the
\* channel mapping.
InputToOutput(u) ==
    u \in inputs /\ PassthroughToOutput(passthrough_config[u])

\* The highest source channel of universe u that is mapped to slot (du, d).
LastMappedSource(u, du, d) ==
    SetMax({c \in Channels :
              \E j \in DOMAIN channel_map[<<u, c>>] :
                  channel_map[<<u, c>>][j] = ChannelTarget(du, d)})

\* Source channels of universe u that pass through unmapped.
UnmappedSlots(u) ==
    IF unmapped_behavior = "passthrough"
    THEN {c \in InputRange(passthrough_config[u]) :
            channel_map[<<u, c>>] = <<>> /\ c \notin MappedDestinations(State, u, u)}
    ELSE {}

\* The slots of universe du that receive a value from a frame of input u.
RoutedSlots(u, du) ==
    IF ~mapping_enabled
    THEN IF du = u THEN InputRange(passthrough_config[u]) ELSE {}
    ELSE MappedDestinations(State, u, du)
             \cup (IF du = u THEN UnmappedSlots(u) ELSE {})

\* The value that slot (du, d) receives from frame f of input u.
RoutedValue(u, f, du, d) ==
    IF mapping_enabled /\ d \in MappedDestinations(State, u, du)
    THEN f[LastMappedSource(u, du, d)]
    ELSE f[d]

\* Slot (du, d) is a member of an enabled group whose physical master is
\* a slot that receives a value from input u.
RoutedGroupDriven(u, du, d) ==
    \E g \in DOMAIN groups :
        /\ groups[g].enabled /\ HasPhysicalMaster(groups[g])
        /\ groups[g].master_channel \in RoutedSlots(u, groups[g].master_universe)
        /\ IsChannelMemberOf(State, g, du, d)

LTPInput(u) == InputToOutput(u) /\ passthrough_config[u].mode = "ltp"

Stable(v, du, d) ==
    v # 0 /\ Abs(v - last_applied_input[du][d]) <= JitterThreshold

\* Input frame f of universe u is processed in this step.
InputStep(u, f) ==
    /\ last_op'.op = "input" /\ last_op'.universe_id = u /\ last_op'.values = f

\* C12 as stated: in LTP mode a slot whose input is non-zero and within the
\* jitter threshold of the last applied input keeps its output when the
\* frame is processed (direct and mapped passthrough).
C12_Original ==
    [][\A u \in Universes, f \in InputFrames :
          (InputStep(u, f) /\ LTPInput(u)) =>
              \A du \in Universes : \A d \in RoutedSlots(u, du) :
                  Stable(RoutedValue(u, f, du, d), du, d) =>
                      channels'[du][d] = channels[du][d]]_vars

\* C12: the same, for every slot that is not a member of a group whose
\* physical master receives a value from the same input (such a slot is
\* rewritten by the group when the master's input value changes).
C12_LTPJitter ==
    [][\A u \in Universes, f \in InputFrames :
          (InputStep(u, f) /\ LTPInput(u)) =>
              \A du \in Universes : \A d \in RoutedSlots(u, du) :
                  (Stable(RoutedValue(u, f, du, d), du, d)
                       /\ ~RoutedGroupDriven(u, du, d)) =>
                      channels'[du][d] = channels[du][d]]_vars

\* Input ch5 went 77 -> 78 (within the threshold) after a user had moved
\* the fader to 150: the output stays at 150.
C12_Witness ==
    /\ last_op.op = "input" /\ last_op.universe_id = 1 /\ last_op.values[5] = 78
    /\ LTPInput(1) /\ 5 \in RoutedSlots(1, 1)
    /\ last_applied_input[1][5] = 78
    /\ channels[1][5] = 150

\* The merge of value v into slot (du, d).
MergedValue(mode, du, d, v) ==
    IF mode = "ltp"
    THEN LTPValue(v, last_applied_input[du][d], channels[du][d])
    ELSE Min2(255, Max2(local_values[du][d], v))

\* C14: a mapped destination receives the value of its mapped source from
\* a frame, never the value of the unmapped channel with the same number:
\* in the routed frame, and in the output after the merge (blackout and
\* bypass off, slot not driven by a group).
C14_MappedDestination ==
    [][\A u \in Universes, f \in InputFrames :
          (InputStep(u, f) /\ InputToOutput(u) /\ mapping_enabled) =>
              LET acc == RouteFrame(NoRouting, State, u, f, 1)
              IN  \A du \in Universes : \A d \in MappedDestinations(State, u, du) :
                      /\ d \in acc.dst_has_value[du]
                      /\ acc.dst_values[du][d] = f[LastMappedSource(u, du, d)]
                      /\ (~blackout_active /\ ~input_bypass_active
                              /\ ~RoutedGroupDriven(u, du, d)) =>
                             channels'[du][d]
                                 = MergedValue(passthrough_config[u].mode, du, d,
                                               f[LastMappedSource(u, du, d)])]_vars

\* Channel 1 is mapped to slot 3, channel 3 is unmapped and inside the
\* range: the frame ch1 = 200, ch3 = 0 left 200 in slot 3.
C14_Witness ==
    /\ last_op.op = "input" /\ last_op.universe_id = 1
    /\ last_op.values[1] = 200 /\ last_op.values[3] = 0
    /\ InputToOutput(1) /\ mapping_enabled /\ unmapped_behavior = "passthrough"
    /\ channel_map[<<1, 1>>] = <<ChannelTarget(1, 3)>>
    /\ channel_map[<<1, 3>>] = <<>>
    /\ 3 \in InputRange(passthrough_config[1])
    /\ channels[1][3] = 200

WireFrame(s, u) ==
    ApplyGrandmasterScaling(s, ApplyChannelOverrides(s, s.channels[u], u), u)

Ch1Frame(v) == [i \in Channels |-> IF i = 1 THEN v ELSE 0]

\* C13: LTP, threshold 2, last_applied[1] = 100: the inputs ch1 = 101, 103,
\* 0 leave wire ch1 unchanged after the first frame, set it to 103 after
\* the second and to 0 after the third.
C13_LTPScenario ==
    ( /\ LTPDirect(1) /\ ~blackout_active /\ ~input_bypass_active
      /\ last_applied_input[1][1] = 100 )
    => LET s1 == on_input_received(State, 1, Ch1Frame(101))
           s2 == on_input_received(s1, 1, Ch1Frame(103))
           s3 == on_input_received(s2, 1, Ch1Frame(0))
       IN  /\ WireFrame(s1, 1)[1] = WireFrame(State, 1)[1]
           /\ WireFrame(s2, 1)[1] = 103
           /\ WireFrame(s3, 1)[1] = 0

ViewOnly(u) == u \in inputs /\ passthrough_config[u].passthrough_mode = "view_only"

\* C17: with passthrough mode view_only, processing an input frame changes
\* no output buffer slot and emits no wire frame.
C17_ViewOnly ==
    \A u \in Universes, f \in InputFrames :
        ViewOnly(u) =>
            LET r == on_input_received(State, u, f)
            IN  r.channels = channels /\ r.sent = <<>>

\* A view_only frame was processed: the faders show ch1 = 200, the output
\* buffer still holds 0 and nothing was emitted.
C17_Witness ==
    /\ last_op.op = "input" /\ last_op.universe_id = 1 /\ last_op.values[1] = 200
    /\ ViewOnly(1) /\ ~input_bypass_active
    /\ local_values[1][1] = 200
    /\ channels[1][1] = 0
    /\ sent = <<>>

\* A user moves the fader of slot (u, c) to v in this step, through the
\* single-channel write or a one-channel batch.
FaderMove(ops, u, c, v) ==
    /\ last_op'.op \in ops
    /\ IsUserSource(last_op'.source)
    /\ last_op'.universe_id = u
    /\ \/ last_op'.op = "set_channel" /\ last_op'.channel = c /\ last_op'.value = v
       \/ last_op'.op = "set_channels" /\ last_op'.values = << <<c, v>> >>

\* The master of group g is driven by an input (bypass off).
MasterInputControlled(g) ==
    /\ HasPhysicalMaster(groups[g])
    /\ ~input_bypass_active
    /\ groups[g].master_channel
           \in get_input_controlled_channels(State, groups[g].master_universe)

\* The move of slot (u, c), a member of group g only, to v set the master
\* of g to the reverse-calculated value and rewrote the members from it.
ReverseRouted(g, u, c, v) ==
    LET new_master == IF groups[g].mode = "follow" THEN v
                      ELSE Min2(255, PyRound(v * 255, GetMemberBaseValue(groups[g], u, c)))
    IN  /\ groups'[g].master_value = new_master
        /\ \A k \in 1..Len(groups[g].members) :
              LET m == groups[g].members[k]
                  key == <<m.universe_id, m.channel>>
              IN  m.target_type = "channel" =>
                      /\ g \in DOMAIN group_contributions'[key]
                      /\ group_contributions'[key][g]
                             = MemberOutputValue(groups[g], m, new_master)
                      /\ m.channel \notin DOMAIN parked_channels[m.universe_id] =>
                             HTPHolds(channels', group_contributions',
                                      m.universe_id, m.channel)

ReverseRoutingStep(ops) ==
    \A t \in Targets, v \in Values, g \in DOMAIN groups :
        ( /\ FaderMove(ops, t[1], t[2], v)
          /\ GroupsContainingMember(State, t[1], t[2]) = {g}
          /\ ~blackout_active
          /\ ~IsChannelParked(State, t[1], t[2])
          /\ ~MasterInputControlled(g)
          /\ GetMemberBaseValue(groups[g], t[1], t[2]) > 0 )
        => ReverseRouted(g, t[1], t[2], v)

\* C15: a user-sourced write of v to a slot that belongs to exactly one
\* enabled group (no blackout, slot not parked, master not input-controlled)
\* sets the group's master to v (follow) or min(255, round(v * 255 / base))
\* (proportional) and rewrites every member slot from the new master,
\* through set_channel and through set_channels.
C15_ReverseRouting == [][ReverseRoutingStep({"set_channel", "set_channels"})]_vars

\* The same for the batch write alone.
ReverseRoutingBatch == [][ReverseRoutingStep({"set_channels"})]_vars

\* The move of slot (u, c) was rejected with a group_reject event that
\* carries the slot's output value, and changed nothing.
GroupRejected(u, c) ==
    /\ \E k \in 1..Len(events') :
          /\ events'[k].source = "group_reject"
          /\ events'[k].universe_id = u /\ events'[k].channel = c
          /\ events'[k].value = channels[u][c]
    /\ channels' = channels
    /\ local_values' = local_values
    /\ groups' = groups
    /\ group_contributions' = group_contributions

MultiGroupStep(ops) ==
    \A t \in Targets, v \in Values :
        ( /\ FaderMove(ops, t[1], t[2], v)
          /\ Cardinality(GroupsContainingMember(State, t[1], t[2])) >= 2
          /\ ~IsChannelParked(State, t[1], t[2]) )
        => GroupRejected(t[1], t[2])

\* C16: a user-sourced write to a slot (not parked) that belongs to two or
\* more enabled groups produces a group_reject event carrying the slot's
\* current output value and leaves output, local values, group masters and
\* the contribution table unchanged, through set_channel and through
\* set_channels.
C16_MultiGroupReject == [][MultiGroupStep({"set_channel", "set_channels"})]_vars

\* The same for the batch write alone.
MultiGroupRejectBatch == [][MultiGroupStep({"set_channels"})]_vars

----------------------------------------------------------------------------
(* Properties of scene recall *)

\* The step wrote slot (u, c): its output value changed or a channel_change
\* event other than a reject was delivered for it.
SlotWritten(u, c) ==
    \/ channels'[u][c] # channels[u][c]
    \/ \E k \in DOMAIN events' :
          /\ events'[k].type = "channel_change"
          /\ events'[k].universe_id = u
          /\ events'[k].channel = c
          /\ events'[k].source \notin {"park_reject", "group_reject"}

InputControlled(u, c) == c \in get_input_controlled_channels(State, u)

\* A recall by one of `ops` with bypass off writes no input-controlled slot.
RecallKeepsInputSlots(ops) ==
    (last_op'.op \in ops /\ ~input_bypass_active)
        => \A u \in Universes, c \in Channels :
              InputControlled(u, c) => ~SlotWritten(u, c)

\* C18: with input bypass off, recalling a scene (through the REST endpoint
\* or through a MIDI note) never writes a channel that is input-controlled.
C18_RecallFiltersInputs ==
    [][RecallKeepsInputSlots({"recall_scene", "recall_scene_from_midi"})]_vars

\* The same for the REST endpoint alone.
RecallSceneFiltersInputs == [][RecallKeepsInputSlots({"recall_scene"})]_vars

\* The last frame handed to the outputs of universe u among `frames`, or
\* `current` when there is none.
LastFrame(frames, u, current) ==
    LET ks == {k \in DOMAIN frames : frames[k].universe = u}
    IN  IF ks = {} THEN current ELSE frames[SetMax(ks)].frame

InstantRecallDone(id) ==
    /\ last_op.op = "recall_scene"
    /\ last_op.value = id
    /\ IsInstant(StartupScenes[id])

\* C19: right after an instant recall of a scene, recalling the same scene
\* again leaves every output buffer as it is and puts the same frame on the
\* wire of every universe.
C19_InstantIdempotent ==
    \A id \in SceneIds :
        InstantRecallDone(id) =>
            LET r == recall_scene(State, id, StartupScenes[id])
            IN  /\ r.channels = channels
                /\ \A u \in Universes :
                      /\ WireFrame(r, u) = WireFrame(State, u)
                      /\ LastFrame(r.sent, u, WireFrame(State, u))
                           = LastFrame(sent, u, WireFrame(State, u))

\* C19 witness: scene 1 was recalled instantly after an earlier operation,
\* it reverse-routed slot (1,3) into group 1 and restored the grandmaster.
C19_Witness ==
    /\ InstantRecallDone(1)
    /\ steps >= 2
    /\ channels[1][3] = 150
    /\ channels[1][5] = 200
    /\ global_grandmaster = 128
    /\ \E k \in DOMAIN sent : sent[k].universe = 1 /\ sent[k].frame[5] = 100

\* The fade task i moved from one step to the next in this transition.
FadeAdvanced(i) ==
    /\ last_op'.op = "fade_step"
    /\ i \in DOMAIN fades /\ i \in DOMAIN fades'
    /\ fades'[i].step = fades[i].step + 1

\* From one step of the fade task i to the next, the value computed for the
\* j-th target of its k-th universe moves toward the target or stays, and it
\* is the value the slot holds after the step.
FadeSlotMonotonic(i, k, j) ==
    LET u == fades[i].targets[k][1]
        c == fades[i].targets[k][2][j][1]
        a == fades[i].start_values[u][c]
        b == fades[i].targets[k][2][j][2]
        previous == fades[i].new_values[k][j][2]
        written == fades'[i].new_values[k][j][2]
    IN  /\ a <= b => previous <= written
        /\ a >= b => previous >= written
        /\ (~blackout_active /\ ~IsChannelParked(State, u, c))
               => channels'[u][c] = written

\* C20: for any fade from a to b the per-step values written to each target
\* channel are non-decreasing when a <= b and non-increasing when a >= b.
C20_FadeMonotonic ==
    [][\A i \in DOMAIN fades :
          FadeAdvanced(i) =>
              \A k \in DOMAIN fades[i].targets :
                  \A j \in DOMAIN fades[i].targets[k][2] :
                      FadeSlotMonotonic(i, k, j)]_vars

\* C20 witness: the fade of scene 4 takes slot (1,5) down from 200 and has
\* written its second step, 66 after 133.
C20_Witness ==
    /\ last_op.op = "fade_step"
    /\ \E i \in DOMAIN fades :
          /\ fades[i].scene_id = 4
          /\ fades[i].step = 2
          /\ fades[i].start_values[1][5] = 200
          /\ fades[i].new_values[1][1] = <<5, 66>>
    /\ channels[1][5] = 66

\* Slot (u, c) is a target of the fade task f.
FadeTargets(f) ==
    UNION {{<<f.targets[k][1], f.targets[k][2][j][1]>> : j \in DOMAIN f.targets[k][2]} :
              k \in DOMAIN f.targets}

\* The last operation was a user's set_channel on slot (u, c) and the slot
\* holds the user's value.
UserWrote(u, c) ==
    /\ last_op.op = "set_channel"
    /\ IsUserSource(last_op.source)
    /\ last_op.universe_id = u /\ last_op.channel = c
    /\ channels[u][c] = last_op.value

\* C21: a user write that arrived on a target channel while a fade was
\* sleeping is not overwritten by the fade's next step.
C21_UserWriteOverridesFade ==
    [][\A i \in DOMAIN fades :
          FadeAdvanced(i) =>
              \A t \in FadeTargets(fades[i]) :
                  UserWrote(t[1], t[2]) => channels'[t[1]][t[2]] = channels[t[1]][t[2]]]_vars

\* The last operation was a recall that began while the fade task i was
\* sleeping: an instant recall, or a fading one queued behind task i.
SecondRecallBegan(i) ==
    /\ last_op.op = "recall_scene"
    /\ i \in DOMAIN fades
    /\ IsInstant(StartupScenes[last_op.value]) \/ i < Len(fades)

\* C22: once a second recall has begun during a fade, the first fade writes
\* no further step.
C22_SecondRecallCancelsFade ==
    [][\A i \in DOMAIN fades : SecondRecallBegan(i) => ~FadeAdvanced(i)]_vars

----------------------------------------------------------------------------
(* Properties of blackout and bypass *)

\* blackout(), a further blackout() when `again`, then release_blackout().
BlackoutThenRelease(s, again) ==
    CHOOSE r \in
        {release_blackout(IF again THEN blackout(b) ELSE b) : b \in {blackout(s)}} : TRUE

\* Released at once, every output buffer is the frame held before blackout().
BlackoutRoundTrip ==
    ~blackout_active => BlackoutThenRelease(State, FALSE).channels = channels

\* C23: after blackout() followed later by release_blackout(), with no
\* channel written in between, every output buffer equals the frame it held
\* immediately before blackout(); the remote trigger may repeat blackout()
\* while it is active (api/remote.py:322).
C23_BlackoutRestores ==
    ~blackout_active =>
        \A again \in BOOLEAN : BlackoutThenRelease(State, again).channels = channels

\* The step released input bypass.
BypassReleased ==
    /\ input_bypass_active
    /\ last_op'.op = "set_input_bypass" /\ last_op'.value = 0

----------------------------------------------------------------------------
(* Properties of the shared transports *)

\* C25: under any interleaving of start() and stop() on outputs sharing a
\* transport key, no running output holds a node that has been closed.
C25_TransportSafety ==
    \A o \in Outputs : output_running[o] => output_node[o] \notin closed_nodes

----------------------------------------------------------------------------
(* Properties of the mapped passthrough as seen from the wire *)

\* The destinations of an input step on universe u that a frame of
\* universe fu carries and whose value the step changed: routed slots of
\* fu, the grandmaster of fu and the global grandmaster.
ChangedDestinations(u, fu) ==
    {<<"channel", d>> : d \in {x \in MappedDestinations(State, u, fu) :
                                  channels'[fu][x] # channels[fu][x]}}
        \cup (IF universe_grandmasters'[fu] # universe_grandmasters[fu]
              THEN {<<"universe_master", fu>>} ELSE {})
        \cup (IF global_grandmaster' # global_grandmaster
              THEN {<<"global_master", 0>>} ELSE {})

\* The frame was computed with the new value of destination x.
ReflectsNew(frame, x) ==
    IF x[1] = "channel" THEN frame.buffer[x[2]] = channels'[frame.universe][x[2]]
    ELSE IF x[1] = "universe_master"
         THEN frame.universe_gm = universe_grandmasters'[frame.universe]
         ELSE frame.global_gm = global_grandmaster'

\* The frame shows some changed destinations updated and others not, and
\* its bytes are neither those of the state before the input frame nor
\* those of the state after it.
HalfApplied(u, frame) ==
    /\ \E x, y \in ChangedDestinations(u, frame.universe) :
           ReflectsNew(frame, x) /\ ~ReflectsNew(frame, y)
    /\ frame.frame # WireFrame(State, frame.universe)
    /\ frame.frame # WireFrame(State', frame.universe)

\* C26: no wire frame emitted while an input frame is processed with the
\* channel mapping enabled reflects a half-applied mapped passthrough: a
\* state in which only some of the frame's mapped destinations (channels or
\* grandmasters) have been updated.
C26_AtomicMappedPassthrough ==
    [][\A u \in Universes, f \in InputFrames :
          (InputStep(u, f) /\ InputToOutput(u) /\ mapping_enabled) =>
              \A k \in 1..Len(sent') : ~HalfApplied(u, sent'[k])]_vars

----------------------------------------------------------------------------
(* Properties of the local buffer *)

\* A group write leaves the local buffer alone: a set_channel call, which
\* applies the groups mastered by the written slot, changes the local
\* buffer at most in the written slot.
GroupWriteKeepsLocal ==
    last_op'.op = "set_channel" =>
        \A u \in Universes, c \in Channels :
            (u # last_op'.universe_id \/ c # last_op'.channel) =>
                local_values'[u][c] = local_values[u][c]

\* Processing an input frame, with the groups it drives, leaves the local
\* buffer alone.
MergeKeepsLocal ==
    last_op'.op = "input" =>
        \A u \in Universes, c \in Channels : local_values'[u][c] = local_values[u][c]

\* C27: the local buffer is never mutated by the merge itself or by a group
\* write: processing an input frame (in any passthrough mode) and applying
\* a group leave local[u][c] unchanged for every universe and channel.
C27_LocalNotMutated == [][MergeKeepsLocal /\ GroupWriteKeepsLocal]_vars

\* The group half alone: it holds in every step of the input specifications.
GroupWriteNeverMutatesLocal == [][GroupWriteKeepsLocal]_vars

----------------------------------------------------------------------------
(* Properties of group removal *)

\* The slot lost the contribution of group g and holds the highest of the
\* remaining contributions, or zero when none remains.
SlotRecomputed(g, k) ==
    /\ group_contributions'[k] = DropKey(group_contributions[k], g)
    /\ channels'[k[1]][k[2]] =
           IF DOMAIN group_contributions'[k] = {} THEN 0
           ELSE SetMax(ContributionValues(group_contributions'[k]))

\* C28: removing a group clears that group's entries from the contribution
\* table and recomputes HTP for the affected slots: each affected slot
\* becomes the max of the remaining groups' contributions, or zero if no
\* contributors remain.  Removing a member does the same for its slot.
C28_RemoveGroupRecomputes ==
    [][/\ last_op'.op = "remove_group" =>
            /\ last_op'.channel \notin DOMAIN groups'
            /\ \A k \in Universes \X Channels :
                   /\ last_op'.channel \notin DOMAIN group_contributions'[k]
                   /\ last_op'.channel \in DOMAIN group_contributions[k] =>
                          SlotRecomputed(last_op'.channel, k)
       /\ last_op'.op = "remove_member" =>
            LET k == <<last_op'.universe_id, last_op'.values[1]>>
            IN  last_op'.channel \in DOMAIN group_contributions[k] =>
                    SlotRecomputed(last_op'.channel, k)]_vars

\* Group 2 was removed while groups 1 and 2 contributed to slot (1,2): the
\* slot fell back to the contribution of group 1, and a frame was sent.
C28_Witness ==
    /\ last_op.op = "remove_group" /\ last_op.channel = 2
    /\ Len(sent) > 0
    /\ group_contributions[<<1, 2>>] = (1 :> 64)
    /\ channels[1][2] = 64

----------------------------------------------------------------------------
(* Properties of the group broadcasts *)

\* The group_value_changed broadcasts of the step that come from
\* _check_group_masters_for_input.
InputGroupBroadcasts ==
    {k \in 1..Len(events') :
        events'[k].type = "group_value_changed" /\ events'[k].source = "input"}

\* The broadcasts of the step respect the throttle and the change
\* detection: one per group, none sooner than BroadcastInterval after the
\* group's previous broadcast, none with the value the input applied to
\* the group last.
GroupBroadcastsThrottled ==
    /\ \A k \in InputGroupBroadcasts :
           /\ group_broadcast_age[events'[k].channel] >= BroadcastInterval
           /\ events'[k].value # last_group_values[events'[k].channel]
    /\ \A j, k \in InputGroupBroadcasts :
           events'[j].channel = events'[k].channel => j = k

----------------------------------------------------------------------------
(* Properties of the color mixer *)

\* The colour step of the group applied by the step: the group of last_op',
\* its colour and brightness after the step.
ColorGroupApplied ==
    /\ last_op'.op \in {"set_group_color", "apply_group_direct"}
    /\ last_op'.channel \in DOMAIN groups
    /\ groups[last_op'.channel].mode = "color_mixer"

\* C30: for a color-mixer group with master m, each member's output slot
\* equals round(role_value * m / 255), where role_value is the member's
\* colour-role value derived from the group's HSL (members on parked
\* channels aside); HSL (0, 100, 50) with master 200 gives 200, 0, 0 for the
\* red, green and blue members.
C30_ColorMixerOutput ==
    [][ColorGroupApplied =>
          LET group == groups'[last_op'.channel]
              rgb == hsl_to_rgb(group.color_state.h, group.color_state.s,
                                group.color_state.l)
          IN  \A k \in DOMAIN group.members :
                  LET member == group.members[k]
                  IN  ~IsChannelParked(State, member.universe_id, member.channel) =>
                          channels'[member.universe_id][member.channel]
                              = PyRound(color_role_to_value(member.color_role,
                                                            rgb[1], rgb[2], rgb[3])
                                            * group.master_value, 255)]_vars

\* The worked example of C30 alone: HSL (0, 100, 50), master 200.
ColorMixerExample ==
    [][(/\ ColorGroupApplied
        /\ groups'[1].color_state = [h |-> 0, s |-> 100, l |-> 50]
        /\ groups'[1].master_value = 200
        /\ parked_channels[1] = <<>>)
          => channels'[1][1] = 200 /\ channels'[1][2] = 0 /\ channels'[1][3] = 0]_vars

----------------------------------------------------------------------------
(* Properties of the transition types *)

\* The fade task i wrote a step in this transition: its first step when the
\* recall began, or a later one when it woke up.
FadeWroteStep(i) ==
    \/ FadeAdvanced(i)
    \/ /\ last_op'.op = "recall_scene"
       /\ Len(fades') = Len(fades) + 1
       /\ i = Len(fades')

\* The value the transition type of the scene prescribes for a slot at
\* progress step / n_steps: from 0 for a crossfade, from the slot's value at
\* the start of the recall for a fade.
TransitionValue(transition_type, start, target, step, n_steps) ==
    IF transition_type = "crossfade"
    THEN TruncDiv(target * step, n_steps)
    ELSE TruncDiv(start * n_steps + (target - start) * step, n_steps)

\* C31: a crossfade recall interpolates each target slot toward its target
\* from 0 instead of from the slot's current value: at progress p the slot
\* is written with target * p, whereas a fade recall writes
\* current + (target - current) * p.
C31_CrossfadeFromZero ==
    [][\A i \in DOMAIN fades' :
          FadeWroteStep(i) =>
              LET f == fades'[i]
                  type == StartupScenes[f.scene_id].transition_type
              IN  \A k \in DOMAIN f.targets :
                      \A j \in DOMAIN f.targets[k][2] :
                          LET u == f.targets[k][1]
                              c == f.targets[k][2][j][1]
                          IN  (~blackout_active /\ ~IsChannelParked(State, u, c)) =>
                                  channels'[u][c]
                                      = TransitionValue(type, f.start_values[u][c],
                                                        f.targets[k][2][j][2],
                                                        f.step, f.steps)]_vars

----------------------------------------------------------------------------
(* Properties of writes to input-driven groups *)

InputMasterRejectStep(ops) ==
    \A t \in Targets, v \in Values, g \in DOMAIN groups :
        ( /\ FaderMove(ops, t[1], t[2], v)
          /\ GroupsContainingMember(State, t[1], t[2]) = {g}
          /\ MasterInputControlled(g)
          /\ ~IsChannelParked(State, t[1], t[2]) )
        => GroupRejected(t[1], t[2])

\* C32: with input bypass off, a user write to a member of a group whose
\* master is input-controlled is rejected: a group_reject event carrying the
\* slot's current output value is emitted and neither the slot, the group
\* master nor any other member changes, through set_channel and through
\* set_channels.
C32_InputMasterReject == [][InputMasterRejectStep({"set_channel", "set_channels"})]_vars

\* The same for the batch write alone.
InputMasterRejectBatch == [][InputMasterRejectStep({"set_channels"})]_vars


----------------------------------------------------------------------------
(* Properties of shutdown and of the output lists *)

\* Every node that was created has had its socket closed.
TransportsReleased ==
    /\ node_refs = <<>>
    /\ shared_nodes = <<>>
    /\ closed_nodes = 1..nodes_created

\* C33: disconnect() stops every input before it stops an output, and when
\* it has returned no input and no output is running, no transport key has
\* a reference count left and every transport has been closed.
C33_ShutdownReleases ==
    /\ disconnect.pc \in {"outputs", "done"} => inputs = {}
    /\ disconnect.pc = "done" =>
          /\ inputs = {}
          /\ \A o \in Outputs : ~output_running[o]
          /\ TransportsReleased

\* A shutdown of outputs that were added one after the other releases
\* everything: two of them shared a node, and it is closed.
ShutdownAfterSequentialAdds ==
    /\ disconnect.pc = "done"
    /\ nodes_created = 1
    /\ outputs_created >= 2
    /\ TransportsReleased
    /\ \A o \in Outputs : ~output_running[o]

\* The sequence without the entries equal to x
Without(q, x) ==
    LET Keep(e) == e # x IN SelectSeq(q, Keep)

\* C38: under any interleaving of add_output and remove_output the two
\* lists have the same length and entry i of one belongs to entry i of the
\* other, and a remove_output that was suspended in stop() removes exactly
\* the output it was called for.
C38_OutputListsAligned ==
    [][/\ Len(outputs') = Len(output_configs')
       /\ \A i \in DOMAIN outputs' : output_configs'[i] = outputs'[i]
       /\ \A o \in Outputs :
             (output_calls[o].op = "remove" /\ output_calls'[o].op = "none") =>
                 /\ outputs' = Without(outputs, o)
                 /\ output_configs' = Without(output_configs, o)]_vars

\* The lists stay aligned under every interleaving.
OutputListsSameShape ==
    /\ Len(outputs) = Len(output_configs)
    /\ \A i \in DOMAIN outputs : output_configs[i] = outputs[i]


----------------------------------------------------------------------------
(* Properties of the contribution table *)

\* The entry of group g on slot k is the value g computes now for a member
\* it has on that slot.
ContributionCurrent(k, g) ==
    /\ g \in DOMAIN groups
    /\ \E i \in DOMAIN groups[g].members :
          LET member == groups[g].members[i]
          IN  /\ member.target_type = "channel"
              /\ <<member.universe_id, member.channel>> = k
              /\ group_contributions[k][g] =
                     MemberOutputValue(groups[g], member, groups[g].master_value)

\* C34: every entry of the contribution table that belongs to an enabled
\* proportional or follow group is on a slot the group has as a member and
\* equals the value computed from the group's mode, the member's base value
\* and the group's current master_value.
C34_ContributionsCurrent ==
    \A k \in Universes \X Channels : \A g \in DOMAIN group_contributions[k] :
        (g \in DOMAIN groups /\ groups[g].enabled /\ groups[g].mode # "color_mixer")
            => ContributionCurrent(k, g)


----------------------------------------------------------------------------
(* Properties of a repeated blackout *)

\* The step was a call of blackout() made while blackout was active.
BlackoutRepeated ==
    /\ blackout_active
    /\ last_op'.op = "blackout"

\* C35: a blackout() called while blackout is already active keeps the
\* frames captured by the first call, so that release_blackout() then
\* restores the frames held before the first blackout().
C35_BlackoutIdempotent ==
    [][BlackoutRepeated =>
          /\ pre_blackout_values' = pre_blackout_values
          /\ release_blackout(State').channels = release_blackout(State).channels]_vars


----------------------------------------------------------------------------
(* Properties of park followed by unpark *)

\* park_channel(u, c, level) and then unpark_channel(u, c).
ParkThenUnpark(s, u, c, level) ==
    CHOOSE r \in {unpark_channel(p, u, c) : p \in {park_channel(s, u, c, level)}} : TRUE

\* C36: park_channel(u, c, L) followed at once by unpark_channel(u, c), on
\* a slot that was not parked, returns the buffer slot and the wire slot to
\* the value the slot had before it was parked.
C36_ParkUnparkRestores ==
    \A u \in Universes : \A c \in Channels : \A level \in ParkValues :
        ~IsChannelParked(State, u, c) =>
            LET r == ParkThenUnpark(State, u, c, level)
            IN  /\ r.channels[u][c] = channels[u][c]
                /\ WireFrame(r, u)[c] = WireFrame(State, u)[c]

\* The round trip leaves every other slot of the buffers, and the park
\* table, as they were.
ParkUnparkLeavesOthers ==
    \A u \in Universes : \A c \in Channels : \A level \in ParkValues :
        ~IsChannelParked(State, u, c) =>
            LET r == ParkThenUnpark(State, u, c, level)
            IN  /\ r.parked_channels = parked_channels
                /\ \A x \in Universes : \A y \in Channels :
                       <<x, y>> # <<u, c>> => r.channels[x][y] = channels[x][y]


----------------------------------------------------------------------------
(* Properties of set_passthrough *)

\* C37: set_passthrough leaves the channel range configured by add_input as
\* it was, and, when the passthrough mode it is given is the one in force,
\* the set returned by get_input_controlled_channels as well.
C37_SetPassthroughKeepsRange ==
    [][last_op'.op = "set_passthrough" =>
          LET u == last_op'.universe_id
          IN  /\ ConfigRange(passthrough_config'[u]) = ConfigRange(passthrough_config[u])
              /\ passthrough_config'[u].passthrough_mode = passthrough_config[u].passthrough_mode
                    => get_input_controlled_channels(State', u)
                           = get_input_controlled_channels(State, u)]_vars

\* set_passthrough stores the two settings it is given and touches no
\* other universe.
SetPassthroughStoresSettings ==
    [][last_op'.op = "set_passthrough" =>
          /\ passthrough_config'[1].passthrough_mode = last_op'.source
          /\ \A u \in Universes \ {1} : passthrough_config'[u] = passthrough_config[u]
          /\ channels' = channels]_vars


----------------------------------------------------------------------------
(* Properties of the group broadcast throttle over time *)

\* The console keeps sending frames and the master of group 2, driven by
\* the input, has come to rest at the level.
MasterAtRest(level) ==
    /\ []<>(last_op.op = "input")
    /\ <>[](last_group_values[2] = level /\ groups[2].master_value = level)

\* C39: once the input-driven master of group 2 stays at full, the last
\* group value broadcast the subscribers received eventually carries that
\* level, while frames keep arriving.
C39_FinalValueBroadcast ==
    MasterAtRest(200) => <>[](group_value_seen[2] = 200)

\* The group itself is never behind: its members carry the level that the
\* input last set on the master.
GroupFollowsInput ==
    \A level \in MasterLevels :
        (last_group_values[2] = level) =>
            /\ groups[2].master_value = level
            /\ group_contributions[<<1, 3>>][2] = level


----------------------------------------------------------------------------
(* Properties of the end of a fade *)

\* Start and target levels, and step counts up to a fade of one second.
FadeLevels == {0, 1, 51, 127, 128, 150, 200, 254, 255}

MaxFadeSteps == 30

\* The fade task i wrote its last step in this transition.
FadeWroteLastStep(i) ==
    /\ FadeWroteStep(i)
    /\ fades'[i].step = fades'[i].steps

\* The value the facade holds for a slot after the step: the output buffer,
\* or the pre-blackout frame that release_blackout will put back.
HeldValueAfter(u, c) ==
    IF blackout_active' THEN pre_blackout_values'[u][c] ELSE channels'[u][c]

\* C40: when a fade has written its last step, every target slot that is
\* not parked holds the scene's target value, whatever the start value; the
\* last step of the interpolation is the target for every number of steps.
C40_FadeEndsOnTarget ==
    [][\A i \in DOMAIN fades' :
          FadeWroteLastStep(i) =>
              /\ \A k \in DOMAIN fades'[i].targets :
                 \A j \in DOMAIN fades'[i].targets[k][2] :
                     LET u == fades'[i].targets[k][1]
                         c == fades'[i].targets[k][2][j][1]
                     IN  ~IsChannelParked(State, u, c) =>
                             HeldValueAfter(u, c) = fades'[i].targets[k][2][j][2]
              /\ \A start \in FadeLevels : \A target \in FadeLevels :
                 \A n_steps \in 1..MaxFadeSteps :
                     FadeValue(start, target, n_steps, n_steps) = target]_vars

\* C40 witness: the fade of scene 3 has written its last step; channel 5 of
\* universe 1 started at 150 and is at its target 200, and the parked target
\* channel 1 of universe 2 kept its park level.
C40_Witness ==
    /\ last_op.op = "fade_step"
    /\ \E i \in DOMAIN fades :
          /\ fades[i].scene_id = 3
          /\ fades[i].step = fades[i].steps
          /\ fades[i].start_values[1][5] = 150
    /\ ~blackout_active
    /\ IsChannelParked(State, 2, 1)
    /\ channels[2][1] = 51
    /\ channels[1][5] = 200

\* A parked target slot is left at its park level by the last step.
FadeSkipsParked ==
    [][\A i \in DOMAIN fades' :
          FadeWroteLastStep(i) =>
              \A u \in Universes : \A c \in Channels :
                  IsChannelParked(State, u, c) => channels'[u][c] = channels[u][c]]_vars

====
